---------------------------- MODULE Spec2Model ----------------------------
(***************************************************************************)
(* State-machine model of daily_calendar.py: the canonical event model,    *)
(* the per-platform source adapters, the snapshot store (current /         *)
(* previous / archive tiers), the change detector and the first-run and    *)
(* daily-run orchestration of DailyTaskScheduler.                          *)
(*                                                                         *)
(* Encodings.  A date string 'YYYY-MM-DD' is the integer YYYYMMDD: the     *)
(* code compares date strings lexicographically, which on well-formed ISO  *)
(* dates is the order of these integers.  Identifiers and dedup keys are   *)
(* the very strings the f-strings of the code build.  None is the string   *)
(* "None"; an empty date string is 0.  created_at and the other wall-clock *)
(* timestamps are not modelled: no code path reads them.  The Chinese      *)
(* category and country literals are written in ASCII ("CN", "hsgg").      *)
(***************************************************************************)
EXTENDS Integers, Sequences, FiniteSets, TLC

VARIABLES
    today,        \* the wall-clock date datetime.now() yields
    universe,     \* the records the upstream sources can serve (a sequence)
    cap,          \* most records one collection returns, all platforms together
    current,      \* data/active/current/<platform>.txt   (platform -> events)
    previous,     \* data/active/previous/<platform>.txt  (platform -> events)
    archive,      \* data/archived/<year>/<month>/<platform>.txt
    metadata,     \* data/active/current/metadata.txt     (<<>> when absent)
    marker,       \* data/active/current/first_run_marker.txt
    reports,      \* data/active/current/change_report_<date>.txt (date -> report)
    pc,           \* position of the running orchestrator call ("idle": none)
    mode,         \* the entry point running: "first" | "daily" | "detect" | "collect"
    future_data,  \* the local future_data of the running call
    changes,      \* the local all_changes of the running call
    runs,         \* number of orchestrator calls started (bounded)
    failures,     \* number of I/O errors met so far (bounded)
    retrying,     \* history: an exception ended a daily run on this date
    startCur,     \* history: the current tier when that failed run started
    file,         \* a platform file as some other program left it (LoadSpec)
    loaded,       \* what load_platform_data returned for it (LoadSpec)
    request,      \* a single-day request of the investing adapter (RetrySpec)
    conc          \* two daily runs at work on the one store (ConcSpec)

vars == <<today, universe, cap, current, previous, archive, metadata, marker,
          reports, pc, mode, future_data, changes, runs, failures,
          retrying, startCur, file, loaded, request, conc>>

-----------------------------------------------------------------------------
(* Bounds of the model *)

\* most source records one collection returns, all platforms together
MaxCollected == 2
\* days the wall clock can advance after the first modelled day
MaxTicks == 3
\* orchestrator calls explored in one behaviour
MaxRuns == 3
\* I/O errors (a failing file operation) explored in one behaviour
MaxFailures == 1
\* most events in the stored baseline that DetectSpec starts from
MaxBaseline == 2

-----------------------------------------------------------------------------
(* Dates *)

MkDate(y, m, d) == y * 10000 + m * 100 + d
YearOf(date) == date \div 10000
MonthOf(date) == (date \div 100) % 100
DayOf(date) == date % 100

IsLeap(y) == (y % 4 = 0 /\ y % 100 # 0) \/ y % 400 = 0

DaysInMonth(y, m) ==
    IF m \in {4, 6, 9, 11} THEN 30
    ELSE IF m = 2 THEN (IF IsLeap(y) THEN 29 ELSE 28)
    ELSE 31

\* datetime + timedelta(days=1)
Tomorrow(date) ==
    IF DayOf(date) < DaysInMonth(YearOf(date), MonthOf(date)) THEN date + 1
    ELSE IF MonthOf(date) < 12 THEN MkDate(YearOf(date), MonthOf(date) + 1, 1)
    ELSE MkDate(YearOf(date) + 1, 1, 1)

\* datetime.now() - timedelta(days=1)
Yesterday(date) ==
    IF DayOf(date) > 1 THEN date - 1
    ELSE IF MonthOf(date) > 1
         THEN MkDate(YearOf(date), MonthOf(date) - 1,
                     DaysInMonth(YearOf(date), MonthOf(date) - 1))
    ELSE MkDate(YearOf(date) - 1, 12, 31)

\* datetime + timedelta(days=n), a month at a time
RECURSIVE AddDays(_, _)
AddDays(date, n) ==
    LET left == DaysInMonth(YearOf(date), MonthOf(date)) - DayOf(date)
    IN  IF n <= left THEN date + n
        ELSE AddDays(Tomorrow(date + left), n - left - 1)

Pad2(n) == IF n < 10 THEN "0" \o ToString(n) ELSE ToString(n)
\* strftime('%Y-%m-%d')
DateStr(date) ==
    ToString(YearOf(date)) \o "-" \o Pad2(MonthOf(date)) \o "-" \o Pad2(DayOf(date))
\* date.replace('-', '')
DateCompact(date) == ToString(date)

\* the first day of the modelled calendar and the days the clock can reach
FirstDay == MkDate(2025, 5, 30)
Days == {AddDays(FirstDay, n) : n \in 0..MaxTicks}
LastDay == AddDays(FirstDay, MaxTicks)

-----------------------------------------------------------------------------
(* Canonical event model *)

Platforms == <<"cls", "jiuyangongshe", "tonghuashun", "investing", "eastmoney">>
PlatformSet == {Platforms[i] : i \in DOMAIN Platforms}

None == "None"

\* a faulty variant of __post_init__: discovery_date is set to today whatever
\* it was (sensitivity test of C26)
PostInit_always_today(e, now) == [e EXCEPT !.discovery_date = now]

\* StandardizedEvent.__post_init__: an empty discovery_date becomes today
PostInit(e, now) ==
    IF e.discovery_date = 0 THEN [e EXCEPT !.discovery_date = now] ELSE e

\* the dataclass constructor: given fields, defaults for the rest, __post_init__
StandardizedEvent(fields, now) ==
    PostInit(fields @@ [event_time |-> None, event_datetime |-> None,
                        title |-> "", content |-> None, category |-> None,
                        importance |-> 0 - 1, country |-> None,
                        raw_attr_id |-> "", data_status |-> "ACTIVE",
                        is_new |-> FALSE, discovery_date |-> 0], now)

\* hashlib.md5(title.encode()).hexdigest()[:8], tabulated for the titles used
Md5Prefix(title) ==
    CASE title = "a" -> "0cc175b9"
      [] title = "b" -> "92eb5ffe"
      [] title = "c" -> "4a8a08f0"
      [] title = ""  -> "d41d8cd9"

\* the built-in hash() of a str: salted per interpreter process
PyHash(seed, s) == "h" \o ToString(seed) \o "x" \o s
HashSeeds == {0, 1}

-----------------------------------------------------------------------------
(* Small sequence helpers *)

Range(s) == {s[i] : i \in DOMAIN s}
Map(s, Op(_)) == [i \in DOMAIN s |-> Op(s[i])]

RECURSIVE Flatten(_)
Flatten(ss) == IF ss = <<>> THEN <<>> ELSE Head(ss) \o Flatten(Tail(ss))

\* the subsequence of s at the positions in idx, in order
RECURSIVE SubSeqAt(_, _, _)
SubSeqAt(s, idx, i) ==
    IF i > Len(s) THEN <<>>
    ELSE (IF i \in idx THEN <<s[i]>> ELSE <<>>) \o SubSeqAt(s, idx, i + 1)

-----------------------------------------------------------------------------
(* Source adapters.  An upstream record is                                  *)
(*   [nid, sub, date, time, title, rank]                                    *)
(* nid: the source-native id (cls id, jiuyan article_id, investing          *)
(* event_attr_ID, eastmoney SECUCODE); sub: the disambiguator the adapter   *)
(* puts in event_id (cls type, jiuyan timeline_id, eastmoney                *)
(* SECURITY_NAME_ABBR); time: the time of day the source gives; rank: the   *)
(* source's importance figure (cls star, jiuyan grade, investing bull       *)
(* icons).  A response is a sequence of such records.                       *)

InWindow(date, start_date, end_date) == ~(date < start_date \/ date > end_date)

_get_cls_category(type) ==
    CASE type = "1" -> "economic"
      [] type = "2" -> "announcement"
      [] type = "3" -> "holiday"
      [] OTHER -> "other"

ClsEvent(item, now) ==
    StandardizedEvent(
        [platform |-> "cls",
         event_id |-> "cls_" \o item.nid \o "_" \o DateCompact(item.date)
                         \o "_" \o item.sub,
         original_id |-> item.nid,
         event_date |-> item.date,
         event_time |-> item.time,
         event_datetime |-> DateStr(item.date) \o " " \o item.time,
         title |-> item.title,
         category |-> _get_cls_category(item.sub),
         importance |-> item.rank,
         country |-> "CN"], now)

_collect_cls_future_dynamic(resp, start_date, end_date, now) ==
    Map(SelectSeq(resp, LAMBDA it : InWindow(it.date, start_date, end_date)),
        LAMBDA it : ClsEvent(it, now))

Min(a, b) == IF a < b THEN a ELSE b
Max(a, b) == IF a > b THEN a ELSE b

JiuyanEvent(item, now) ==
    StandardizedEvent(
        [platform |-> "jiuyangongshe",
         event_id |-> "jygs_" \o item.nid \o "_" \o item.sub \o "_"
                         \o DateCompact(item.date),
         original_id |-> item.nid,
         event_date |-> item.date,
         title |-> item.title,
         content |-> "",
         importance |-> Max(1, Min(5, 7 - item.rank)),
         country |-> "CN"], now)

_get_jiuyan_month_data(resp, year, month, start_date, end_date, now) ==
    Map(SelectSeq(resp, LAMBDA it : /\ YearOf(it.date) = year
                                    /\ MonthOf(it.date) = month
                                    /\ InWindow(it.date, start_date, end_date)),
        LAMBDA it : JiuyanEvent(it, now))

\* enumerate(day_events): the index of a record among those of its day
DayIndex(resp, k) == Cardinality({j \in 1..(k - 1) : resp[j].date = resp[k].date})

ThsEvent(item, i, now) ==
    StandardizedEvent(
        [platform |-> "tonghuashun",
         event_id |-> "ths_" \o DateCompact(item.date) \o "_" \o ToString(i)
                         \o "_" \o Md5Prefix(item.title),
         original_id |-> DateStr(item.date) \o "_" \o ToString(i),
         event_date |-> item.date,
         title |-> item.title,
         importance |-> 3,
         country |-> "CN"], now)

_get_tonghuashun_month_data(resp, year, month, start_date, end_date, now) ==
    LET keep == {k \in DOMAIN resp : /\ YearOf(resp[k].date) = year
                                     /\ MonthOf(resp[k].date) = month
                                     /\ InWindow(resp[k].date, start_date, end_date)}
        evs == [k \in DOMAIN resp |-> ThsEvent(resp[k], DayIndex(resp, k), now)]
    IN  SubSeqAt(evs, keep, 1)

\* The month-by-month walk of the jiuyangongshe and tonghuashun adapters:
\* the months (as their first days) visited from current_dt up to end_dt, and
\* whether current_dt.replace(month=...) raised ValueError, which it does when
\* the next month has no day of current_dt's number.
RECURSIVE MonthWalk(_, _)
MonthWalk(current_dt, end_dt) ==
    IF ~(current_dt <= end_dt) THEN [raised |-> FALSE, months |-> <<>>]
    ELSE LET y == YearOf(current_dt)
             m == MonthOf(current_dt)
             ny == IF m = 12 THEN y + 1 ELSE y
             nm == IF m = 12 THEN 1 ELSE m + 1
         IN  IF DayOf(current_dt) > DaysInMonth(ny, nm)
             THEN [raised |-> TRUE, months |-> <<MkDate(y, m, 1)>>]
             ELSE LET rest == MonthWalk(MkDate(ny, nm, DayOf(current_dt)), end_dt)
                  IN  [raised |-> rest.raised,
                       months |-> <<MkDate(y, m, 1)>> \o rest.months]

MonthWalkRaises(start_date, end_date) == MonthWalk(start_date, end_date).raised

_collect_jiuyan_future_dynamic(resp, start_date, end_date, now) ==
    Flatten(Map(MonthWalk(start_date, end_date).months,
                LAMBDA ym : _get_jiuyan_month_data(resp, YearOf(ym), MonthOf(ym),
                                                   start_date, end_date, now)))

_collect_tonghuashun_future_dynamic(resp, start_date, end_date, now) ==
    Flatten(Map(MonthWalk(start_date, end_date).months,
                LAMBDA ym : _get_tonghuashun_month_data(resp, YearOf(ym), MonthOf(ym),
                                                        start_date, end_date, now)))

\* datetime.replace('/', '').replace(' ', '').replace(':', ''), tabulated
TimeCompact(time) ==
    CASE time = "08:30:00" -> "083000"
      [] time = "20:00:00" -> "200000"

InvestingEvent(item, now) ==
    StandardizedEvent(
        [platform |-> "investing",
         event_id |-> "inv_" \o item.nid \o "_" \o DateCompact(item.date)
                         \o TimeCompact(item.time),
         original_id |-> "eventRowId_" \o item.nid,
         event_date |-> item.date,
         event_time |-> item.time,
         event_datetime |-> ToString(YearOf(item.date)) \o "/"
                               \o Pad2(MonthOf(item.date)) \o "/"
                               \o Pad2(DayOf(item.date)) \o " " \o item.time,
         title |-> item.title,
         importance |-> IF item.rank > 0 THEN item.rank ELSE 1,
         country |-> "US",
         raw_attr_id |-> item.nid], now)

\* one day's request: the rows of that day (event_date == date)
_request_investing_single_day(resp, date, now) ==
    Map(SelectSeq(resp, LAMBDA it : it.date = date),
        LAMBDA it : InvestingEvent(it, now))

\* What the source does with one request: it answers with the day's rows
\* ("ok"), the connection raises ("error"), the request times out
\* ("timeout"), or the status is not 200 ("status").
Outcomes == {"ok", "error", "timeout", "status"}

\* _request_investing_single_day under an outcome: whether it raised, and
\* what it returned.  Its try block holds the request and the parsing, and
\* its except clause returns [] for every exception.
RequestAnswer(outcome, resp, date, now) ==
    [raised |-> FALSE,
     value |-> IF outcome = "ok" THEN _request_investing_single_day(resp, date, now)
               ELSE <<>>]

\* no single-day request has been made
NoRequest == [outcomes |-> <<>>, attempt |-> 0, returned |-> FALSE, value |-> <<>>]

\* the dates start_date .. end_date that carry a record of the response (the
\* other days' requests return nothing)
InvestingDays(resp, start_date, end_date) ==
    {it.date : it \in {x \in Range(resp) : InWindow(x.date, start_date, end_date)}}

\* as_completed: the per-day results are appended in completion order, given
\* here as the sequence `order` of the days
_collect_investing_future_dynamic(resp, order, now) ==
    Flatten(Map(order, LAMBDA d : _request_investing_single_day(resp, d, now)))

\* _process_eastmoney_hsgg; the other seven eastmoney categories are built the
\* same way from their own fields and are not modelled
_process_eastmoney_hsgg(resp, start_date, end_date, seed, now) ==
    Map(SelectSeq(resp, LAMBDA it : start_date <= it.date /\ it.date <= end_date),
        LAMBDA it :
          StandardizedEvent(
            [platform |-> "eastmoney",
             event_id |-> "em_hsgg_" \o it.nid \o "_" \o DateCompact(it.date)
                             \o "_" \o PyHash(seed, it.title),
             original_id |-> it.nid,
             event_date |-> it.date,
             title |-> it.sub \o " - " \o it.title,
             content |-> it.title,
             category |-> "hsgg",
             importance |-> 3,
             country |-> "CN"], now))

_collect_eastmoney_future_dynamic(resp, start_date, end_date, seed, now) ==
    _process_eastmoney_hsgg(resp, start_date, end_date, seed, now)

\* PlatformRangeDetector.get_platform_date_range
get_platform_date_range(platform, start_date) ==
    IF platform = "cls" THEN AddDays(start_date, 180)
    ELSE IF platform \in {"jiuyangongshe", "tonghuashun", "investing", "eastmoney"}
         THEN MkDate(2025, 12, 31)
    ELSE start_date

-----------------------------------------------------------------------------
(* Snapshot store.  A tier is a function from the platforms that have a    *)
(* file to the events stored in it.                                         *)

\* A platform file as load_platform_data finds it.  Its kind is "absent", or
\* tells what json.loads makes of its text: "empty" (no text), "invalid" (no
\* JSON), "no_object" (a JSON value that is no object) or "object", whose
\* 'events' array holds `records`, each a dict from field names to values.
Absent == [kind |-> "absent", records |-> <<>>]

\* the fields of the dataclass without a default, and all of them
RequiredFields == {"platform", "event_id", "original_id", "event_date"}
EventFields ==
    RequiredFields \cup {"event_time", "event_datetime", "title", "content",
                         "category", "importance", "country", "raw_attr_id",
                         "data_status", "is_new", "discovery_date"}

\* StandardizedEvent(**event_data) raises TypeError when a required field is
\* missing or a key is no field of the dataclass
Constructible(event_data) ==
    /\ RequiredFields \subseteq DOMAIN event_data
    /\ DOMAIN event_data \subseteq EventFields

\* a faulty variant of load_platform_data's body: a record that cannot be
\* constructed is skipped (sensitivity test of C17)
load_platform_file_skipping(f, now) ==
    IF f.kind # "object" THEN <<>>
    ELSE Map(SelectSeq(f.records, Constructible),
             LAMBDA event_data : StandardizedEvent(event_data, now))

\* the body of load_platform_data: [] when the file is absent; any exception
\* of the try block (json.loads, data.get, the constructor) gives [] too
load_platform_file(f, now) ==
    IF f.kind = "absent" THEN <<>>
    ELSE IF f.kind # "object" THEN <<>>
    ELSE IF \E i \in DOMAIN f.records : ~Constructible(f.records[i]) THEN <<>>
    ELSE Map(f.records, LAMBDA event_data : StandardizedEvent(event_data, now))

\* load_platform_data on a tier of the store: its files were written by
\* save_platform_data, one dict of all fields per event
load_platform_data(platform, tier, now) ==
    load_platform_file(IF platform \in DOMAIN tier
                       THEN [kind |-> "object", records |-> tier[platform]]
                       ELSE Absent, now)

\* DataStorage.save_platform_data / _save_platform_data_to_path: full overwrite
save_platform_data(tier, platform, events) ==
    (platform :> events) @@ tier

\* save_all_data's loop, stopped after the first k platforms of all_data
RECURSIVE SaveUpTo(_, _, _)
SaveUpTo(tier, all_data, k) ==
    IF k = 0 THEN tier
    ELSE save_platform_data(SaveUpTo(tier, all_data, k - 1),
                            Platforms[k], all_data[Platforms[k]])

SetMin(S) == CHOOSE x \in S : \A y \in S : x <= y
SetMax(S) == CHOOSE x \in S : \A y \in S : x >= y

\* DataStorage._generate_summary: the content of metadata.txt (0: null)
_generate_summary(all_data) ==
    LET dates(p) == {e.event_date : e \in Range(all_data[p])}
        all_dates == UNION {dates(p) : p \in PlatformSet}
        RECURSIVE total(_)
        total(k) == IF k = 0 THEN 0 ELSE Len(all_data[Platforms[k]]) + total(k - 1)
    IN  [platforms |->
            [p \in PlatformSet |->
                [event_count |-> Len(all_data[p]),
                 start |-> IF dates(p) = {} THEN 0 ELSE SetMin(dates(p)),
                 end |-> IF dates(p) = {} THEN 0 ELSE SetMax(dates(p))]],
         total_events |-> total(Len(Platforms)),
         start |-> IF all_dates = {} THEN 0 ELSE SetMin(all_dates),
         end |-> IF all_dates = {} THEN 0 ELSE SetMax(all_dates)]

-----------------------------------------------------------------------------
(* Change detector *)

_generate_event_key(event) ==
    IF event.platform = "cls"
    THEN event.original_id \o "_" \o DateStr(event.event_date) \o "_" \o event.category
    ELSE IF event.platform = "jiuyangongshe"
    THEN event.original_id \o "_" \o DateStr(event.event_date)
    ELSE IF event.platform = "tonghuashun"
    THEN DateStr(event.event_date) \o "_" \o Md5Prefix(event.title)
    ELSE IF event.platform = "investing"
    THEN event.raw_attr_id \o "_" \o DateStr(event.event_date) \o "_" \o event.event_time
    ELSE IF event.platform = "eastmoney"
    THEN event.original_id \o "_" \o DateStr(event.event_date)
    ELSE event.event_id

_has_content_changed(prev_event, curr_event) ==
    \/ prev_event.title # curr_event.title
    \/ prev_event.event_datetime # curr_event.event_datetime
    \/ prev_event.importance # curr_event.importance
    \/ prev_event.content # curr_event.content
    \/ prev_event.country # curr_event.country

\* {key(event): event for event in events}: the dict's items in insertion
\* order; a key met again keeps its place and takes the later event
DictOf(events) ==
    LET key(i) == _generate_event_key(events[i])
        first == {i \in DOMAIN events : \A j \in 1..(i - 1) : key(j) # key(i)}
        last(i) == CHOOSE j \in DOMAIN events :
                      /\ key(j) = key(i)
                      /\ \A k \in DOMAIN events : key(k) = key(i) => k <= j
        vals == [i \in DOMAIN events |-> events[last(i)]]
    IN  SubSeqAt(vals, first, 1)

DictKeys(dict) == {_generate_event_key(dict[i]) : i \in DOMAIN dict}
DictGet(dict, key) == CHOOSE e \in Range(dict) : _generate_event_key(e) = key

\* a faulty variant of _detect_platform_changes: the cancelled list is taken
\* without the run-date filter (sensitivity test of C1)
_detect_platform_changes_unfiltered(previous_events, current_events, now) ==
    LET prev_map == DictOf(previous_events)
        curr_map == DictOf(current_events)
        isNew(e) == /\ e.event_date >= now
                    /\ _generate_event_key(e) \notin DictKeys(prev_map)
        isUpdated(e) == /\ e.event_date >= now
                        /\ _generate_event_key(e) \in DictKeys(prev_map)
                        /\ _has_content_changed(
                               DictGet(prev_map, _generate_event_key(e)), e)
        isCancelled(e) == _generate_event_key(e) \notin DictKeys(curr_map)
    IN  [new_events |-> SelectSeq(curr_map, isNew),
         updated_events |-> SelectSeq(curr_map, isUpdated),
         cancelled_events |-> SelectSeq(prev_map, isCancelled)]

_detect_platform_changes(previous_events, current_events, now) ==
    LET prev_map == DictOf(previous_events)
        curr_map == DictOf(current_events)
        isNew(e) == /\ e.event_date >= now
                    /\ _generate_event_key(e) \notin DictKeys(prev_map)
        isUpdated(e) == /\ e.event_date >= now
                        /\ _generate_event_key(e) \in DictKeys(prev_map)
                        /\ _has_content_changed(
                               DictGet(prev_map, _generate_event_key(e)), e)
        isCancelled(e) == /\ e.event_date >= now
                          /\ _generate_event_key(e) \notin DictKeys(curr_map)
    IN  [new_events |-> SelectSeq(curr_map, isNew),
         updated_events |-> SelectSeq(curr_map, isUpdated),
         cancelled_events |-> SelectSeq(prev_map, isCancelled)]

NoChanges == [new_events |-> <<>>, updated_events |-> <<>>, cancelled_events |-> <<>>]

\* _mark_changes_in_new_data, as it acts on one event of current_events
MarkEvent(e, chg, now) ==
    LET new_event_keys == {_generate_event_key(x) : x \in Range(chg.new_events)}
        updated_event_keys == {_generate_event_key(x) : x \in Range(chg.updated_events)}
    IN  IF _generate_event_key(e) \in new_event_keys
        THEN [e EXCEPT !.is_new = TRUE, !.discovery_date = now]
        ELSE IF _generate_event_key(e) \in updated_event_keys
        THEN [e EXCEPT !.discovery_date = now]
        ELSE e

_mark_changes_in_new_data(current_events, chg, now) ==
    Map(current_events, LAMBDA e : MarkEvent(e, chg, now))

\* The events in the new and updated lists are the objects of current_events,
\* so they carry the marks too; the cancelled ones are baseline objects.
MarkedChanges(chg, now) ==
    [new_events |-> _mark_changes_in_new_data(chg.new_events, chg, now),
     updated_events |-> _mark_changes_in_new_data(chg.updated_events, chg, now),
     cancelled_events |-> chg.cancelled_events]

\* a faulty variant of the sort key: a missing importance sorts below 0
\* (sensitivity test of C19)
SortKey_none_lowest(e) == e.importance

\* list.sort(key=lambda x: x.importance or 0, reverse=True): stable
SortKey(e) == IF e.importance < 0 THEN 0 ELSE e.importance
RECURSIVE InsertByImportance(_, _)
InsertByImportance(sorted, e) ==
    IF sorted = <<>> THEN <<e>>
    ELSE IF SortKey(Head(sorted)) >= SortKey(e)
         THEN <<Head(sorted)>> \o InsertByImportance(Tail(sorted), e)
         ELSE <<e>> \o sorted
RECURSIVE SortByImportance(_)
SortByImportance(events) ==
    IF events = <<>> THEN <<>>
    ELSE InsertByImportance(SortByImportance(SubSeq(events, 1, Len(events) - 1)),
                            events[Len(events)])

Take(s, n) == SubSeq(s, 1, Min(n, Len(s)))

TopN == 10
SampleN == 3

\* _generate_change_report: the content of change_report_<today>.txt; the
\* summary holds the totals detect_all_changes_with_new_data passes in (the
\* titles of the model are shorter than the 50 characters title[:50] keeps)
_generate_change_report(all_changes, total_new, total_updated, total_cancelled) ==
    LET all_new_events ==
            Flatten([k \in DOMAIN Platforms |-> all_changes[Platforms[k]].new_events])
    IN  [summary |-> [total_new |-> total_new,
                      total_updated |-> total_updated,
                      total_cancelled |-> total_cancelled],
         platforms |->
            [p \in PlatformSet |->
                [new_events |-> Len(all_changes[p].new_events),
                 updated_events |-> Len(all_changes[p].updated_events),
                 cancelled_events |-> Len(all_changes[p].cancelled_events),
                 sample_new_titles |->
                     Map(Take(all_changes[p].new_events, SampleN),
                         LAMBDA e : e.title)]],
         top_new_events |->
            Map(Take(SortByImportance(all_new_events), TopN),
                LAMBDA e : [platform |-> e.platform, date |-> e.event_date,
                            title |-> e.title, importance |-> e.importance,
                            country |-> e.country])]

-----------------------------------------------------------------------------
(* Lifecycle manager *)

ArchiveKey(platform, year, month) == <<platform, year, month>>

\* a faulty variant of the merge loop: nothing is dropped (sensitivity test
\* of C4)
Dedup_keep_all(all_events, seen_ids) == all_events

\* the merge loop of _append_to_archive: first occurrence of each event_id
RECURSIVE Dedup(_, _)
Dedup(all_events, seen_ids) ==
    IF all_events = <<>> THEN <<>>
    ELSE IF Head(all_events).event_id \notin seen_ids
         THEN <<Head(all_events)>>
              \o Dedup(Tail(all_events), seen_ids \cup {Head(all_events).event_id})
         ELSE Dedup(Tail(all_events), seen_ids)

\* a faulty variant of _append_to_archive: the file is written from the
\* incoming events alone (sensitivity test of C5)
_append_to_archive_overwrite(arch, platform, year, month, events, now) ==
    (ArchiveKey(platform, year, month) :> Dedup(events, {})) @@ arch

\* A stored archive file is one the program wrote whole, so reading it back
\* succeeds and the bare except of the code is not taken.
_append_to_archive(arch, platform, year, month, events, now) ==
    LET key == ArchiveKey(platform, year, month)
        existing_events == IF key \in DOMAIN arch
                           THEN Map(arch[key], LAMBDA e : PostInit(e, now))
                           ELSE <<>>
        unique_events == Dedup(existing_events \o events, {})
    IN  (key :> unique_events) @@ arch

\* a faulty variant of the selection: the status is left as stored
\* (sensitivity test of C7)
TargetDateEvents_active(cur, platform, target_date, now) ==
    SelectSeq(load_platform_data(platform, cur, now),
              LAMBDA e : e.event_date = target_date)

\* the events of the current tier archive_specific_date_data picks for a platform
TargetDateEvents(cur, platform, target_date, now) ==
    Map(SelectSeq(load_platform_data(platform, cur, now),
                  LAMBDA e : e.event_date = target_date),
        LAMBDA e : [e EXCEPT !.data_status = "ARCHIVED"])

\* archive_specific_date_data, its platform loop stopped after k platforms
RECURSIVE ArchiveUpTo(_, _, _, _, _)
ArchiveUpTo(arch, cur, target_date, k, now) ==
    IF k = 0 THEN arch
    ELSE LET before == ArchiveUpTo(arch, cur, target_date, k - 1, now)
             target_date_events ==
                 TargetDateEvents(cur, Platforms[k], target_date, now)
         IN  IF target_date_events # <<>>
             THEN _append_to_archive(before, Platforms[k], YearOf(target_date),
                                     MonthOf(target_date), target_date_events, now)
             ELSE before

archive_specific_date_data(arch, cur, target_date, now) ==
    ArchiveUpTo(arch, cur, target_date, Len(Platforms), now)

\* a faulty variant of the filter: the boundary date is kept (sensitivity
\* test of C6)
FutureEvents_inclusive(cur, platform, archive_date, now) ==
    SelectSeq(load_platform_data(platform, cur, now),
              LAMBDA e : e.event_date >= archive_date)

\* the events rotate_future_data_only keeps for a platform
FutureEvents(cur, platform, archive_date, now) ==
    SelectSeq(load_platform_data(platform, cur, now),
              LAMBDA e : e.event_date > archive_date)

\* rotate_future_data_only after shutil.rmtree, its platform loop stopped
\* after k platforms; a platform with no future event gets no file
RECURSIVE RotateUpTo(_, _, _, _)
RotateUpTo(cur, archive_date, k, now) ==
    IF k = 0 THEN <<>>
    ELSE LET before == RotateUpTo(cur, archive_date, k - 1, now)
             future_events == FutureEvents(cur, Platforms[k], archive_date, now)
         IN  IF future_events # <<>>
             THEN save_platform_data(before, Platforms[k], future_events)
             ELSE before

rotate_future_data_only(cur, archive_date, now) ==
    RotateUpTo(cur, archive_date, Len(Platforms), now)

\* The three directories of the store, and what each lifecycle operation
\* does to them: archive_specific_date_data reads current_path and writes
\* below archive_path; rotate_future_data_only reads current_path, removes
\* previous_path and writes it anew.
ArchiveStore(store, d, now) ==
    [current |-> store.current,
     previous |-> store.previous,
     archive |-> archive_specific_date_data(store.archive, store.current, d, now)]

RotateStore(store, d, now) ==
    [current |-> store.current,
     previous |-> rotate_future_data_only(store.current, d, now),
     archive |-> store.archive]

-----------------------------------------------------------------------------
(* Collection *)

\* the records of `platform` in the responses the sources give, `picked`
\* being the positions of the universe they serve this time
Response(platform, picked) ==
    SelectSeq(SubSeqAt(universe, picked, 1), LAMBDA it : it.platform = platform)

\* What tells two records of one response apart at the source: the native
\* id for cls, jiuyangongshe and investing, the day and title for
\* tonghuashun (its day lists carry titles only).  An eastmoney company may
\* publish several announcements on one day.
NativeIdentity(r) ==
    IF r.platform = "tonghuashun" THEN <<r.date, r.title>>
    ELSE <<r.nid, r.sub, r.date, r.time>>

\* one response does not hold the same source item twice
NativeIdentityUnique(picked) ==
    \A i, j \in picked :
        (/\ i # j
         /\ universe[i].platform = universe[j].platform
         /\ universe[i].platform # "eastmoney")
        => NativeIdentity(universe[i]) # NativeIdentity(universe[j])

Picks == {S \in SUBSET DOMAIN universe :
             Cardinality(S) <= cap /\ NativeIdentityUnique(S)}

Orderings(S) ==
    {f \in [1..Cardinality(S) -> S] : \A i, j \in DOMAIN f : i # j => f[i] # f[j]}

\* the completion orders of the investing day requests
InvestingOrders(picked, now) ==
    Orderings(InvestingDays(Response("investing", picked), now,
                               get_platform_date_range("investing", now)))

\* collect_all_future_data raises when a month walk does
CollectRaises(now) ==
    \/ MonthWalkRaises(now, get_platform_date_range("jiuyangongshe", now))
    \/ MonthWalkRaises(now, get_platform_date_range("tonghuashun", now))

collect_all_future_data(picked, seed, order, now) ==
    [p \in PlatformSet |->
        CASE p = "cls" ->
               _collect_cls_future_dynamic(Response(p, picked), now,
                   get_platform_date_range(p, now), now)
          [] p = "jiuyangongshe" ->
               _collect_jiuyan_future_dynamic(Response(p, picked), now,
                   get_platform_date_range(p, now), now)
          [] p = "tonghuashun" ->
               _collect_tonghuashun_future_dynamic(Response(p, picked), now,
                   get_platform_date_range(p, now), now)
          [] p = "investing" ->
               _collect_investing_future_dynamic(Response(p, picked), order, now)
          [] p = "eastmoney" ->
               _collect_eastmoney_future_dynamic(Response(p, picked), now,
                   get_platform_date_range(p, now), seed, now)]

\* the platforms whose every request fails during one collection (the
\* connection raises or the status is not 200): none, or one of them
Outages == {{}} \cup {{p} : p \in PlatformSet}

\* The request of an adapter raising is caught by the adapter's own except
\* clause (per month, per day and per category in the adapters that send
\* several), so the adapter of a platform in `down` returns [] and the
\* entries of the other platforms are what their adapters return.
WithOutage(data, down) ==
    [p \in PlatformSet |-> IF p \in down THEN <<>> ELSE data[p]]

\* what collect_all_future_data can return on the day `now`: over the records
\* the sources serve, the hash seed of the process, the completion order of
\* the investing requests and the outages
Collections(now) ==
    LET served ==
            UNION {{collect_all_future_data(picked, seed, order, now) :
                       order \in InvestingOrders(picked, now)} :
                   picked \in Picks, seed \in HashSeeds}
    IN  UNION {{WithOutage(data, down) : down \in Outages} : data \in served}

\* detect_all_changes_with_new_data up to the report: the Change Records, the
\* events of the new and updated lists marked as in new_data
detect_all_changes(prev, new_data, now) ==
    [p \in PlatformSet |->
        MarkedChanges(_detect_platform_changes(load_platform_data(p, prev, now),
                                               new_data[p], now), now)]

\* new_data after detect_all_changes_with_new_data has marked it in place
MarkedData(prev, new_data, now) ==
    [p \in PlatformSet |->
        LET chg == _detect_platform_changes(load_platform_data(p, prev, now),
                                            new_data[p], now)
        IN  IF Len(chg.new_events) > 0 \/ Len(chg.updated_events) > 0
            THEN _mark_changes_in_new_data(new_data[p], chg, now)
            ELSE new_data[p]]

\* total_new, total_updated, total_cancelled as the loop of
\* detect_all_changes_with_new_data accumulates them: the lengths of the
\* Change Records of the platforms whose pass reached the accumulation
RECURSIVE SumLen(_, _, _, _)
SumLen(raw, field, counted, k) ==
    IF k = 0 THEN 0
    ELSE (IF Platforms[k] \in counted THEN Len(raw[Platforms[k]][field]) ELSE 0)
         + SumLen(raw, field, counted, k - 1)

AccumulatedTotals(raw, counted) ==
    [total_new |-> SumLen(raw, "new_events", counted, Len(Platforms)),
     total_updated |-> SumLen(raw, "updated_events", counted, Len(Platforms)),
     total_cancelled |-> SumLen(raw, "cancelled_events", counted, Len(Platforms))]

\* the change report of a call in which no platform's pass raised
ReportOf(all_changes) ==
    LET t == AccumulatedTotals(all_changes, PlatformSet)
    IN  _generate_change_report(all_changes, t.total_new, t.total_updated,
                                t.total_cancelled)

\* Where the try block of one platform's pass can raise: "detect" is before
\* all_changes[platform] is assigned (load_platform_data,
\* _detect_platform_changes), "mark" is after the totals were accumulated
\* (the print of the counts, _mark_changes_in_new_data).
FaultPoints == {"detect", "mark"}

\* the Change Record _detect_platform_changes returns for platform p
PlatformChanges(p, prev, new_data, now) ==
    _detect_platform_changes(load_platform_data(p, prev, now), new_data[p], now)

\* _mark_changes_in_new_data interrupted after k events
MarkUpTo(current_events, chg, k, now) ==
    [i \in DOMAIN current_events |->
        IF i <= k THEN MarkEvent(current_events[i], chg, now)
        ELSE current_events[i]]

\* all_changes when the pass of platform fp raised: the except clause gives
\* fp the empty Change Record
SwallowedChanges(prev, new_data, now, fp) ==
    [p \in PlatformSet |->
        IF p = fp THEN NoChanges
        ELSE detect_all_changes(prev, new_data, now)[p]]

\* new_data when the pass of platform fp raised at `point`, k of fp's events
\* marked by then
SwallowedData(prev, new_data, now, fp, point, k) ==
    [p \in PlatformSet |->
        IF p = fp
        THEN IF point = "mark"
             THEN MarkUpTo(new_data[p], PlatformChanges(p, prev, new_data, now),
                           k, now)
             ELSE new_data[p]
        ELSE MarkedData(prev, new_data, now)[p]]

\* the change report of a call in which the pass of platform fp raised
SwallowedReport(prev, new_data, now, fp, point) ==
    LET raw == [p \in PlatformSet |-> PlatformChanges(p, prev, new_data, now)]
        t == AccumulatedTotals(raw, IF point = "detect" THEN PlatformSet \ {fp}
                                    ELSE PlatformSet)
    IN  _generate_change_report(SwallowedChanges(prev, new_data, now, fp),
                                t.total_new, t.total_updated, t.total_cancelled)

\* DailyTaskScheduler._is_first_run: no .txt in current/ besides metadata.txt
\* and first_run_marker.txt (a change report is such a .txt)
_is_first_run == DOMAIN current = {} /\ DOMAIN reports = {}

-----------------------------------------------------------------------------
(* The upstream sources explored *)

\* an upstream record of `platform` with source-native id nid
Record(platform, nid, date, title) ==
    [platform |-> platform,
     nid |-> nid,
     sub |-> CASE platform = "cls" -> "1"
               [] platform = "jiuyangongshe" -> "t1"
               [] platform = "eastmoney" -> "ABC"
               [] OTHER -> "",
     date |-> date,
     time |-> "08:30:00",
     title |-> title,
     rank |-> IF platform = "jiuyangongshe" THEN 4 ELSE 3]

Item(platform, date, title) == Record(platform, "n1", date, title)

\* one platform serving records over the turn of the month, one of them
\* (06-01) under two titles; the other platforms serve nothing
LifeWorld(platform) ==
    <<Item(platform, MkDate(2025, 5, 30), "a"),
      Item(platform, MkDate(2025, 5, 31), "a"),
      Item(platform, MkDate(2025, 6, 1), "a"),
      Item(platform, MkDate(2025, 6, 1), "b")>>

\* two platforms serving records at once
MixedWorld ==
    <<Item("cls", MkDate(2025, 5, 31), "a"),
      Item("cls", MkDate(2025, 6, 1), "a"),
      Item("investing", MkDate(2025, 5, 31), "a"),
      Item("investing", MkDate(2025, 6, 1), "a")>>

Worlds == {LifeWorld(p) : p \in PlatformSet} \cup {MixedWorld}

\* one platform serving two items on two days, each under two titles
DetectWorld(platform) ==
    <<Record(platform, "n1", MkDate(2025, 6, 1), "a"),
      Record(platform, "n1", MkDate(2025, 6, 1), "b"),
      Record(platform, "n2", MkDate(2025, 6, 1), "a"),
      Record(platform, "n1", MkDate(2025, 6, 2), "a"),
      Record(platform, "n1", MkDate(2025, 6, 2), "b"),
      Record(platform, "n2", MkDate(2025, 6, 2), "a")>>

DetectWorlds == {DetectWorld(p) : p \in PlatformSet}

\* one platform serving the events of 2025-06-01 .. 2025-06-04, the one of
\* 06-02 under two titles
ScenarioWorld(platform) ==
    <<Item(platform, MkDate(2025, 6, 1), "a"),
      Item(platform, MkDate(2025, 6, 2), "a"),
      Item(platform, MkDate(2025, 6, 2), "b"),
      Item(platform, MkDate(2025, 6, 3), "a"),
      Item(platform, MkDate(2025, 6, 4), "a")>>

ScenarioWorlds == {ScenarioWorld(p) : p \in PlatformSet}

-----------------------------------------------------------------------------
(* Orchestration: DailyTaskScheduler.run_first_time and run_daily_update,  *)
(* one action per step; a step that raises ends the call (the except       *)
(* clause returns False).  A file write is taken to be atomic.  The        *)
(* exceptions the change detector swallows platform by platform are        *)
(* explored under DiffSpec.                                                *)

NoData == [p \in PlatformSet |-> <<>>]
NoChangesYet == [p \in PlatformSet |-> NoChanges]

\* the two invocations of run_daily_update ConcSpec follows
ConcRuns == {1, 2}

\* a call of run_daily_update not started: its position and its locals
NotStarted == [pc |-> "idle", future_data |-> NoData, changes |-> NoChangesYet]

\* neither call has started; overlapped tells whether a call has started
\* while the other one was at work
NoRuns == [run |-> [r \in ConcRuns |-> NotStarted], overlapped |-> FALSE]

Init ==
    /\ today = FirstDay
    /\ universe \in Worlds
    /\ cap = MaxCollected
    /\ current = <<>>
    /\ previous = <<>>
    /\ archive = <<>>
    /\ metadata = <<>>
    /\ marker = <<>>
    /\ reports = <<>>
    /\ pc = "idle"
    /\ mode = "none"
    /\ future_data = NoData
    /\ changes = NoChangesYet
    /\ runs = 0
    /\ failures = 0
    /\ retrying = FALSE
    /\ startCur = <<>>
    /\ conc = NoRuns
    /\ request = NoRequest
    /\ file = Absent
    /\ loaded = <<>>

\* the call returns False from its except clause; io tells whether the
\* exception was an I/O error
Abort(io) ==
    /\ io => failures < MaxFailures
    /\ failures' = IF io THEN failures + 1 ELSE failures
    /\ pc' = "idle"
    /\ mode' = "none"
    /\ future_data' = NoData
    /\ changes' = NoChangesYet
    /\ retrying' = (mode = "daily")
    /\ UNCHANGED <<conc, request, file, loaded, today, universe, cap, runs, startCur>>

\* midnight passes while no call is running
Tick ==
    /\ pc = "idle"
    /\ today < LastDay
    /\ today' = Tomorrow(today)
    /\ retrying' = FALSE
    /\ startCur' = <<>>
    /\ UNCHANGED <<conc, request, file, loaded>>
    /\ UNCHANGED <<universe, cap, current, previous, archive, metadata, marker,
                   reports, pc, mode, future_data, changes, runs, failures>>

StartFirst ==
    /\ pc = "idle"
    /\ runs < MaxRuns
    /\ _is_first_run
    /\ pc' = "collect"
    /\ mode' = "first"
    /\ runs' = runs + 1
    /\ UNCHANGED failures
    /\ UNCHANGED <<conc, request, file, loaded, today, universe, cap, current, previous, archive, metadata,
                   marker, reports, future_data, changes, retrying, startCur>>

StartDaily ==
    /\ pc = "idle"
    /\ runs < MaxRuns
    /\ ~_is_first_run
    /\ pc' = "archive"
    /\ mode' = "daily"
    /\ runs' = runs + 1
    /\ UNCHANGED failures
    /\ startCur' = IF retrying THEN startCur ELSE current
    /\ UNCHANGED <<conc, request, file, loaded, today, universe, cap, current, previous, archive, metadata,
                   marker, reports, future_data, changes, retrying>>

\* a faulty variant of step 1: the run goes on to collect without rotating
\* (sensitivity test of C22)
Archive_skips_rotate ==
    /\ pc = "archive"
    /\ archive' = archive_specific_date_data(archive, current, Yesterday(today), today)
    /\ pc' = "collect"
    /\ UNCHANGED <<conc, request, file, loaded, today, universe, cap, current, previous, metadata, marker,
                   reports, mode, future_data, changes, runs, failures, retrying,
                   startCur>>

\* step 1: archive_specific_date_data(yesterday)
Archive ==
    /\ pc = "archive"
    /\ archive' = archive_specific_date_data(archive, current, Yesterday(today), today)
    /\ pc' = "rotate"
    /\ UNCHANGED <<conc, request, file, loaded, today, universe, cap, current, previous, metadata, marker,
                   reports, mode, future_data, changes, runs, failures, retrying,
                   startCur>>

\* step 1 raises (an I/O error) after k platforms
ArchiveFails ==
    /\ pc = "archive"
    /\ \E k \in 0..(Len(Platforms) - 1) :
          archive' = ArchiveUpTo(archive, current, Yesterday(today), k, today)
    /\ Abort(TRUE)
    /\ UNCHANGED <<current, previous, metadata, marker, reports>>

\* a faulty variant of step 2: the future events are moved, the current
\* directory is left empty (sensitivity test of C24)
Rotate_moves_current ==
    /\ pc = "rotate"
    /\ previous' = rotate_future_data_only(current, Yesterday(today), today)
    /\ current' = <<>>
    /\ pc' = "collect"
    /\ UNCHANGED <<conc, request, file, loaded, today, universe, cap, archive, metadata, marker,
                   reports, mode, future_data, changes, runs, failures, retrying,
                   startCur>>

\* step 2: rotate_future_data_only(yesterday)
Rotate ==
    /\ pc = "rotate"
    /\ previous' = rotate_future_data_only(current, Yesterday(today), today)
    /\ pc' = "collect"
    /\ UNCHANGED <<conc, request, file, loaded, today, universe, cap, current, archive, metadata, marker,
                   reports, mode, future_data, changes, runs, failures, retrying,
                   startCur>>

\* a faulty variant of the failing step 2: the exception is swallowed and the
\* run goes on to collect (sensitivity test of C13)
RotateFails_goes_on ==
    /\ pc = "rotate"
    /\ failures < MaxFailures
    /\ failures' = failures + 1
    /\ \/ previous' = previous
       \/ \E k \in 0..(Len(Platforms) - 1) :
             previous' = RotateUpTo(current, Yesterday(today), k, today)
    /\ pc' = "collect"
    /\ UNCHANGED <<conc, request, file, loaded, today, universe, cap, current, archive, metadata, marker,
                   reports, mode, future_data, changes, runs, retrying, startCur>>

\* step 2 raises: in shutil.rmtree, or after it and k platforms
RotateFails ==
    /\ pc = "rotate"
    /\ \/ previous' = previous
       \/ \E k \in 0..(Len(Platforms) - 1) :
             previous' = RotateUpTo(current, Yesterday(today), k, today)
    /\ Abort(TRUE)
    /\ UNCHANGED <<current, archive, metadata, marker, reports>>

\* a faulty variant of step 3: a first run goes on to the diff as a daily
\* run does (sensitivity test of C11)
Collect_then_diff ==
    /\ pc = "collect"
    /\ ~CollectRaises(today)
    /\ future_data' \in Collections(today)
    /\ pc' = "diff"
    /\ UNCHANGED <<conc, request, file, loaded, today, universe, cap, current, previous, archive, metadata,
                   marker, reports, mode, changes, runs, failures, retrying,
                   startCur>>

\* step 3: collect_all_future_data
Collect ==
    /\ pc = "collect"
    /\ ~CollectRaises(today)
    /\ future_data' \in Collections(today)
    /\ pc' = IF mode \in {"first", "collect"} THEN "save" ELSE "diff"
    /\ UNCHANGED <<conc, request, file, loaded, today, universe, cap, current, previous, archive, metadata,
                   marker, reports, mode, changes, runs, failures, retrying,
                   startCur>>

\* step 3 raises the month walk's ValueError
CollectFails ==
    /\ pc = "collect"
    /\ CollectRaises(today)
    /\ Abort(FALSE)
    /\ UNCHANGED <<current, previous, archive, metadata, marker, reports>>

\* step 4: detect_all_changes_with_new_data
Detect ==
    /\ pc = "diff"
    /\ changes' = detect_all_changes(previous, future_data, today)
    /\ future_data' = MarkedData(previous, future_data, today)
    /\ reports' = (today :> ReportOf(changes')) @@ reports
    /\ pc' = IF mode = "detect" THEN "done" ELSE "save"
    /\ UNCHANGED <<conc, request, file, loaded, today, universe, cap, current, previous, archive, metadata,
                   marker, mode, runs, failures, retrying, startCur>>

\* step 4 with the try block of one platform's pass raising: the except
\* clause of the loop swallows the exception and the call goes on
DetectSwallows ==
    /\ pc = "diff"
    /\ failures < MaxFailures
    /\ failures' = failures + 1
    /\ \E fp \in PlatformSet, point \in FaultPoints :
         /\ \E k \in 0..Max(0, Len(future_data[fp]) - 1) :
              future_data' = SwallowedData(previous, future_data, today,
                                           fp, point, k)
         /\ changes' = SwallowedChanges(previous, future_data, today, fp)
         /\ reports' = (today :> SwallowedReport(previous, future_data,
                                                 today, fp, point)) @@ reports
    /\ pc' = IF mode = "detect" THEN "done" ELSE "save"
    /\ UNCHANGED <<conc, request, file, loaded, today, universe, cap, current, previous, archive, metadata,
                   marker, mode, runs, retrying, startCur>>

\* step 4 raises writing the report
DetectFails ==
    /\ pc = "diff"
    /\ Abort(TRUE)
    /\ UNCHANGED <<current, previous, archive, metadata, marker, reports>>

\* step 5: save_all_data (and, in a first run, _create_first_run_marker)
Save ==
    /\ pc = "save"
    /\ current' = SaveUpTo(current, future_data, Len(Platforms))
    /\ metadata' = <<_generate_summary(future_data)>>
    /\ marker' = IF mode = "first" THEN <<today>> ELSE marker
    /\ pc' = "done"
    /\ UNCHANGED <<conc, request, file, loaded, today, universe, cap, previous, archive, reports, mode,
                   future_data, changes, runs, failures, retrying, startCur>>

\* step 5 raises after k platforms (k = all of them: writing metadata.txt)
SaveFails ==
    /\ pc = "save"
    /\ \E k \in 0..Len(Platforms) :
          current' = SaveUpTo(current, future_data, k)
    /\ Abort(TRUE)
    /\ UNCHANGED <<previous, archive, metadata, marker, reports>>

\* a first run raises writing first_run_marker.txt
MarkerFails ==
    /\ pc = "save"
    /\ mode = "first"
    /\ current' = SaveUpTo(current, future_data, Len(Platforms))
    /\ metadata' = <<_generate_summary(future_data)>>
    /\ Abort(TRUE)
    /\ UNCHANGED <<previous, archive, marker, reports>>

\* the call returns True
Finish ==
    /\ pc = "done"
    /\ pc' = "idle"
    /\ mode' = "none"
    /\ future_data' = NoData
    /\ changes' = NoChangesYet
    /\ retrying' = FALSE
    /\ startCur' = <<>>
    /\ UNCHANGED <<conc, request, file, loaded, today, universe, cap, current, previous, archive, metadata,
                   marker, reports, runs, failures>>

Next ==
    \/ Tick
    \/ StartFirst
    \/ StartDaily
    \/ Archive
    \/ ArchiveFails
    \/ Rotate
    \/ RotateFails
    \/ Collect
    \/ CollectFails
    \/ Detect
    \/ DetectFails
    \/ Save
    \/ SaveFails
    \/ MarkerFails
    \/ Finish

Spec == Init /\ [][Next]_vars

-----------------------------------------------------------------------------
(* All four entry points of __main__ on a store that starts empty:          *)
(* --first-run, --daily, --collect (collect and save) and --detect (collect *)
(* and diff), no file operation failing.  An exception in --collect or      *)
(* --detect ends the process; what it has written stays.                    *)

\* most records one collection returns here
EntryCap == 1

\* python daily_calendar.py --detect
StartDetect ==
    /\ pc = "idle"
    /\ runs < MaxRuns
    /\ pc' = "collect"
    /\ mode' = "detect"
    /\ runs' = runs + 1
    /\ UNCHANGED <<conc, request, file, loaded, today, universe, cap, current, previous, archive, metadata,
                   marker, reports, future_data, changes, failures, retrying,
                   startCur>>

\* python daily_calendar.py --collect
StartCollectOnly ==
    /\ pc = "idle"
    /\ runs < MaxRuns
    /\ pc' = "collect"
    /\ mode' = "collect"
    /\ runs' = runs + 1
    /\ UNCHANGED <<conc, request, file, loaded, today, universe, cap, current, previous, archive, metadata,
                   marker, reports, future_data, changes, failures, retrying,
                   startCur>>

EntryInit ==
    /\ today = FirstDay
    /\ universe = LifeWorld("cls")
    /\ cap = EntryCap
    /\ current = <<>>
    /\ previous = <<>>
    /\ archive = <<>>
    /\ metadata = <<>>
    /\ marker = <<>>
    /\ reports = <<>>
    /\ pc = "idle"
    /\ mode = "none"
    /\ future_data = NoData
    /\ changes = NoChangesYet
    /\ runs = 0
    /\ failures = 0
    /\ retrying = FALSE
    /\ startCur = <<>>
    /\ conc = NoRuns
    /\ request = NoRequest
    /\ file = Absent
    /\ loaded = <<>>

EntryNext ==
    \/ Tick
    \/ StartFirst
    \/ StartDaily
    \/ StartDetect
    \/ StartCollectOnly
    \/ Archive
    \/ Rotate
    \/ Collect
    \/ CollectFails
    \/ Detect
    \/ Save
    \/ Finish

EntrySpec == EntryInit /\ [][EntryNext]_vars

-----------------------------------------------------------------------------
(* The --detect entry point: collect_all_future_data, then                 *)
(* detect_all_changes_with_new_data against the stored baseline.  It       *)
(* starts from the store a first run on FirstDay and the archive and       *)
(* rotate steps of a daily run on DetectDay leave behind.                  *)

DetectDay == MkDate(2025, 6, 1)

DetectInit ==
    /\ today \in {DetectDay, Tomorrow(DetectDay)}
    /\ universe \in DetectWorlds
    /\ cap = MaxCollected
    /\ \E picked \in {S \in Picks : Cardinality(S) <= MaxBaseline}, seed \in HashSeeds :
         \E order \in InvestingOrders(picked, FirstDay) :
            LET data == collect_all_future_data(picked, seed, order, FirstDay)
            IN  /\ current = SaveUpTo(<<>>, data, Len(Platforms))
                /\ metadata = <<_generate_summary(data)>>
    /\ archive = archive_specific_date_data(<<>>, current, Yesterday(DetectDay),
                                            DetectDay)
    /\ previous = rotate_future_data_only(current, Yesterday(DetectDay), DetectDay)
    /\ marker = <<FirstDay>>
    /\ reports = <<>>
    /\ pc = "collect"
    /\ mode = "detect"
    /\ future_data = NoData
    /\ changes = NoChangesYet
    /\ runs = 1
    /\ failures = 0
    /\ retrying = FALSE
    /\ startCur = <<>>
    /\ conc = NoRuns
    /\ request = NoRequest
    /\ file = Absent
    /\ loaded = <<>>

DetectNext ==
    \/ Collect
    \/ Detect
    \/ Finish

DetectSpec == DetectInit /\ [][DetectNext]_vars

-----------------------------------------------------------------------------
(* Steps 3 to 5 of run_daily_update with the change detector's faults: the *)
(* daily run of DiffDay has archived and rotated the store a first run on  *)
(* FirstDay left, and goes on to collect, diff and save.  The try block of *)
(* one platform's pass through the detector's loop may raise.              *)

DiffDay == MkDate(2025, 6, 1)

DiffInit ==
    /\ today = DiffDay
    /\ universe \in DetectWorlds
    /\ cap = MaxCollected
    /\ \E picked \in {S \in Picks : Cardinality(S) <= MaxBaseline}, seed \in HashSeeds :
         \E order \in InvestingOrders(picked, FirstDay) :
            LET data == collect_all_future_data(picked, seed, order, FirstDay)
            IN  /\ current = SaveUpTo(<<>>, data, Len(Platforms))
                /\ metadata = <<_generate_summary(data)>>
    /\ archive = archive_specific_date_data(<<>>, current, Yesterday(DiffDay),
                                            DiffDay)
    /\ previous = rotate_future_data_only(current, Yesterday(DiffDay), DiffDay)
    /\ marker = <<FirstDay>>
    /\ reports = <<>>
    /\ pc = "collect"
    /\ mode = "daily"
    /\ future_data = NoData
    /\ changes = NoChangesYet
    /\ runs = 2
    /\ failures = 0
    /\ retrying = FALSE
    /\ startCur = current
    /\ conc = NoRuns
    /\ request = NoRequest
    /\ file = Absent
    /\ loaded = <<>>

DiffNext ==
    \/ Collect
    \/ Detect
    \/ DetectSwallows
    \/ DetectFails
    \/ Save
    \/ SaveFails
    \/ Finish

DiffSpec == DiffInit /\ [][DiffNext]_vars

-----------------------------------------------------------------------------
(* load_platform_data on the files another program can leave in a tier:    *)
(* the file is rewritten, then loaded.                                      *)

\* most records of a file here
MaxRecords == 3

\* the dicts a file can hold: one with the required fields only, one with all
\* fields, one without event_id, one with a key that is no field
StoredRecords ==
    LET short == [platform |-> "cls", event_id |-> "cls_1_20250601_1",
                  original_id |-> "1", event_date |-> MkDate(2025, 6, 1)]
        full == StandardizedEvent(
                    [platform |-> "cls", event_id |-> "cls_2_20250602_1",
                     original_id |-> "2", event_date |-> MkDate(2025, 6, 2),
                     title |-> "a"], FirstDay)
    IN  {short, full,
         [platform |-> "cls", original_id |-> "3", event_date |-> MkDate(2025, 6, 1)],
         short @@ [source |-> "x"]}

Files ==
    {Absent} \cup {[kind |-> k, records |-> <<>>] : k \in {"empty", "invalid", "no_object"}}
    \cup {[kind |-> "object", records |-> r] :
             r \in UNION {[1..n -> StoredRecords] : n \in 0..MaxRecords}}

Rewrite ==
    /\ pc \in {"idle", "loaded"}
    /\ file' \in Files
    /\ loaded' = <<>>
    /\ pc' = "load"
    /\ UNCHANGED <<conc, request, today, universe, cap, current, previous, archive, metadata,
                   marker, reports, mode, future_data, changes, runs, failures,
                   retrying, startCur>>

Load ==
    /\ pc = "load"
    /\ loaded' = load_platform_file(file, today)
    /\ pc' = "loaded"
    /\ UNCHANGED <<conc, request, file, today, universe, cap, current, previous, archive,
                   metadata, marker, reports, mode, future_data, changes, runs,
                   failures, retrying, startCur>>

LoadNext ==
    \/ Rewrite
    \/ Load

LoadSpec == Init /\ [][LoadNext]_vars

-----------------------------------------------------------------------------
(* _generate_change_report on Change Records with more new events than the *)
(* report lists: the detector's loop has filled all_changes, the report is *)
(* written next.                                                            *)

\* most new events of cls, and of each other platform, here
MaxClsNew == 4
MaxNew == 3

\* the importance values the adapters give (None is -1): the star of the cls
\* item, 7 - grade for jiuyangongshe, 3 for the others
ImportanceOf(p) ==
    CASE p = "cls" -> {0 - 1, 0, 5}
      [] p = "jiuyangongshe" -> {1, 5}
      [] OTHER -> {3}

\* the j-th new event of platform p
NewEvent(p, j, importance, now) ==
    [StandardizedEvent([platform |-> p,
                        event_id |-> p \o "_" \o ToString(j),
                        original_id |-> ToString(j),
                        event_date |-> now,
                        title |-> "t" \o ToString(j),
                        importance |-> importance], now)
        EXCEPT !.is_new = TRUE]

NewLists(p, now) ==
    LET lens == IF p = "cls" THEN {0, MaxClsNew} ELSE {0, MaxNew - 1, MaxNew}
    IN  UNION {{[j \in 1..n |-> NewEvent(p, j, imp[j], now)] :
                   imp \in [1..n -> ImportanceOf(p)]} : n \in lens}

ReportInit ==
    /\ today = FirstDay
    /\ universe = LifeWorld("cls")
    /\ cap = MaxCollected
    /\ current = <<>>
    /\ previous = <<>>
    /\ archive = <<>>
    /\ metadata = <<>>
    /\ marker = <<>>
    /\ reports = <<>>
    /\ pc = "report"
    /\ mode = "detect"
    /\ future_data = NoData
    /\ \E n1 \in NewLists(Platforms[1], FirstDay), n2 \in NewLists(Platforms[2], FirstDay),
          n3 \in NewLists(Platforms[3], FirstDay), n4 \in NewLists(Platforms[4], FirstDay),
          n5 \in NewLists(Platforms[5], FirstDay) :
          changes = [p \in PlatformSet |->
                        [new_events |-> CASE p = Platforms[1] -> n1
                                          [] p = Platforms[2] -> n2
                                          [] p = Platforms[3] -> n3
                                          [] p = Platforms[4] -> n4
                                          [] p = Platforms[5] -> n5,
                         updated_events |-> <<>>,
                         cancelled_events |-> <<>>]]
    /\ runs = 1
    /\ failures = 0
    /\ retrying = FALSE
    /\ startCur = <<>>
    /\ conc = NoRuns
    /\ request = NoRequest
    /\ file = Absent
    /\ loaded = <<>>

\* the call of _generate_change_report that ends detect_all_changes_with_new_data
Report ==
    /\ pc = "report"
    /\ reports' = (today :> ReportOf(changes)) @@ reports
    /\ pc' = "done"
    /\ UNCHANGED <<conc, request, file, loaded, today, universe, cap, current, previous, archive,
                   metadata, marker, mode, future_data, changes, runs, failures,
                   retrying, startCur>>

ReportNext ==
    \/ Report
    \/ Finish

ReportSpec == ReportInit /\ [][ReportNext]_vars

-----------------------------------------------------------------------------
(* The orchestration at the turn of the year: the first run, and the daily *)
(* run after it, on a day from 2025-12-30 to 2026-01-02, no step raising.  *)

\* orchestrator calls explored here
YearEndRuns == 2

YearEndDays == {MkDate(2025, 12, 30), MkDate(2025, 12, 31),
                MkDate(2026, 1, 1), MkDate(2026, 1, 2)}

\* one platform serving the events of 2025-12-31 .. 2026-01-02
YearEndWorld(platform) ==
    <<Item(platform, MkDate(2025, 12, 31), "a"),
      Item(platform, MkDate(2026, 1, 1), "a"),
      Item(platform, MkDate(2026, 1, 2), "a"),
      Item(platform, MkDate(2026, 1, 2), "b")>>

YearEndWorlds == {YearEndWorld(p) : p \in PlatformSet}

YearEndInit ==
    /\ today \in YearEndDays
    /\ universe \in YearEndWorlds
    /\ cap = MaxCollected
    /\ current = <<>>
    /\ previous = <<>>
    /\ archive = <<>>
    /\ metadata = <<>>
    /\ marker = <<>>
    /\ reports = <<>>
    /\ pc = "idle"
    /\ mode = "none"
    /\ future_data = NoData
    /\ changes = NoChangesYet
    /\ runs = MaxRuns - YearEndRuns
    /\ failures = 0
    /\ retrying = FALSE
    /\ startCur = <<>>
    /\ conc = NoRuns
    /\ request = NoRequest
    /\ file = Absent
    /\ loaded = <<>>

YearEndNext ==
    \/ StartFirst
    \/ StartDaily
    \/ Archive
    \/ Rotate
    \/ Collect
    \/ Detect
    \/ Save
    \/ Finish

YearEndSpec == YearEndInit /\ [][YearEndNext]_vars

-----------------------------------------------------------------------------
(* _request_investing_single_day_with_retry for the run date, the source   *)
(* answering the successive requests of the day in every way               *)

\* the default of the max_retries parameter
max_retries == 3

\* the call starts: the source will answer the requests as `outcomes` tells
RequestDay ==
    /\ pc = "idle"
    /\ \E outcomes \in [1..max_retries -> Outcomes] :
          request' = [outcomes |-> outcomes, attempt |-> 0, returned |-> FALSE,
                      value |-> <<>>]
    /\ pc' = "request"
    /\ UNCHANGED <<conc, file, loaded, today, universe, cap, current, previous, archive,
                   metadata, marker, reports, mode, future_data, changes, runs,
                   failures, retrying, startCur>>

\* one pass through the loop over range(max_retries)
Attempt ==
    /\ pc = "request"
    /\ request.attempt < max_retries
    /\ LET k == request.attempt + 1
           r == RequestAnswer(request.outcomes[k], universe, today, today)
       IN  IF ~r.raised
           THEN /\ request' = [request EXCEPT !.attempt = k, !.returned = TRUE,
                                              !.value = r.value]
                /\ pc' = "idle"
           ELSE IF k = max_retries
           THEN /\ request' = [request EXCEPT !.attempt = k, !.returned = TRUE,
                                              !.value = <<>>]
                /\ pc' = "idle"
           ELSE /\ request' = [request EXCEPT !.attempt = k]
                /\ pc' = "request"
    /\ UNCHANGED <<conc, file, loaded, today, universe, cap, current, previous, archive,
                   metadata, marker, reports, mode, future_data, changes, runs,
                   failures, retrying, startCur>>

RetryInit ==
    /\ Init
    /\ universe = LifeWorld("investing")

RetryNext ==
    \/ RequestDay
    \/ Attempt

RetrySpec == RetryInit /\ [][RetryNext]_vars

-----------------------------------------------------------------------------
(* Two invocations of run_daily_update on ConcDay, in two processes, on    *)
(* the store a first run on FirstDay left.  Each step of a call is taken   *)
(* whole; the steps of the two calls interleave in every way, the calls    *)
(* one after the other included.  No step raises.                          *)

ConcDay == MkDate(2025, 6, 1)

\* the other call
Other(r) == CHOOSE o \in ConcRuns : o # r

AtWork(r) == conc.run[r].pc \notin {"idle", "returned"}

ConcInit ==
    /\ today = ConcDay
    /\ universe \in Worlds
    /\ cap = MaxCollected
    /\ \E picked \in Picks, seed \in HashSeeds :
         \E order \in InvestingOrders(picked, FirstDay) :
            LET data == collect_all_future_data(picked, seed, order, FirstDay)
            IN  /\ current = SaveUpTo(<<>>, data, Len(Platforms))
                /\ metadata = <<_generate_summary(data)>>
    /\ archive = <<>>
    /\ previous = <<>>
    /\ marker = <<FirstDay>>
    /\ reports = <<>>
    /\ pc = "idle"
    /\ mode = "none"
    /\ future_data = NoData
    /\ changes = NoChangesYet
    /\ runs = 1
    /\ failures = 0
    /\ retrying = FALSE
    /\ startCur = <<>>
    /\ conc = NoRuns
    /\ request = NoRequest
    /\ file = Absent
    /\ loaded = <<>>

\* what a step of call r leaves alone besides the store
ConcFrame ==
    UNCHANGED <<today, universe, cap, marker, pc, mode, future_data, changes,
                runs, failures, retrying, startCur, file, loaded, request>>

ConcStart(r) ==
    /\ conc.run[r].pc = "idle"
    /\ ~_is_first_run
    /\ conc' = [conc EXCEPT !.run[r].pc = "archive",
                            !.overlapped = @ \/ AtWork(Other(r))]
    /\ ConcFrame
    /\ UNCHANGED <<current, previous, archive, metadata, reports>>

\* step 1 of call r
ConcArchive(r) ==
    /\ conc.run[r].pc = "archive"
    /\ archive' = archive_specific_date_data(archive, current, Yesterday(today), today)
    /\ conc' = [conc EXCEPT !.run[r].pc = "rotate"]
    /\ ConcFrame
    /\ UNCHANGED <<current, previous, metadata, reports>>

\* a faulty variant of step 2: the baseline is left as it was (sensitivity
\* test of C21)
ConcRotate_keeps_baseline(r) ==
    /\ conc.run[r].pc = "rotate"
    /\ conc' = [conc EXCEPT !.run[r].pc = "collect"]
    /\ ConcFrame
    /\ UNCHANGED <<current, previous, archive, metadata, reports>>

\* step 2 of call r
ConcRotate(r) ==
    /\ conc.run[r].pc = "rotate"
    /\ previous' = rotate_future_data_only(current, Yesterday(today), today)
    /\ conc' = [conc EXCEPT !.run[r].pc = "collect"]
    /\ ConcFrame
    /\ UNCHANGED <<current, archive, metadata, reports>>

\* step 3 of call r
ConcCollect(r) ==
    /\ conc.run[r].pc = "collect"
    /\ ~CollectRaises(today)
    /\ \E data \in Collections(today) :
          conc' = [conc EXCEPT !.run[r].pc = "diff", !.run[r].future_data = data]
    /\ ConcFrame
    /\ UNCHANGED <<current, previous, archive, metadata, reports>>

\* step 4 of call r
ConcDetect(r) ==
    /\ conc.run[r].pc = "diff"
    /\ LET new_data == conc.run[r].future_data
           all_changes == detect_all_changes(previous, new_data, today)
       IN  /\ conc' = [conc EXCEPT !.run[r].pc = "save",
                                   !.run[r].changes = all_changes,
                                   !.run[r].future_data =
                                       MarkedData(previous, new_data, today)]
           /\ reports' = (today :> ReportOf(all_changes)) @@ reports
    /\ ConcFrame
    /\ UNCHANGED <<current, previous, archive, metadata>>

\* step 5 of call r
ConcSave(r) ==
    /\ conc.run[r].pc = "save"
    /\ current' = SaveUpTo(current, conc.run[r].future_data, Len(Platforms))
    /\ metadata' = <<_generate_summary(conc.run[r].future_data)>>
    /\ conc' = [conc EXCEPT !.run[r].pc = "done"]
    /\ ConcFrame
    /\ UNCHANGED <<previous, archive, reports>>

\* call r returns True
ConcFinish(r) ==
    /\ conc.run[r].pc = "done"
    /\ conc' = [conc EXCEPT !.run[r] =
                    [pc |-> "returned", future_data |-> NoData,
                     changes |-> NoChangesYet]]
    /\ ConcFrame
    /\ UNCHANGED <<current, previous, archive, metadata, reports>>

ConcNext ==
    \/ \E r \in ConcRuns : ConcStart(r)
    \/ \E r \in ConcRuns : ConcArchive(r)
    \/ \E r \in ConcRuns : ConcRotate(r)
    \/ \E r \in ConcRuns : ConcCollect(r)
    \/ \E r \in ConcRuns : ConcDetect(r)
    \/ \E r \in ConcRuns : ConcSave(r)
    \/ \E r \in ConcRuns : ConcFinish(r)

ConcSpec == ConcInit /\ [][ConcNext]_vars

-----------------------------------------------------------------------------
(* The orchestration when no step raises, over 2025-06-01 and 2025-06-02,  *)
(* the sources serving the events of the first days of June                *)

\* most records one collection returns here
ScenarioCap == 3
\* orchestrator calls explored here
ScenarioRuns == 2

ScenarioDay == MkDate(2025, 6, 1)

ScenarioInit ==
    /\ today = ScenarioDay
    /\ universe \in ScenarioWorlds
    /\ cap = ScenarioCap
    /\ current = <<>>
    /\ previous = <<>>
    /\ archive = <<>>
    /\ metadata = <<>>
    /\ marker = <<>>
    /\ reports = <<>>
    /\ pc = "idle"
    /\ mode = "none"
    /\ future_data = NoData
    /\ changes = NoChangesYet
    /\ runs = MaxRuns - ScenarioRuns
    /\ failures = 0
    /\ retrying = FALSE
    /\ startCur = <<>>
    /\ conc = NoRuns
    /\ request = NoRequest
    /\ file = Absent
    /\ loaded = <<>>

ScenarioNext ==
    \/ Tick
    \/ StartFirst
    \/ StartDaily
    \/ Archive
    \/ Rotate
    \/ Collect
    \/ Detect
    \/ Save
    \/ Finish

ScenarioSpec == ScenarioInit /\ [][ScenarioNext]_vars

-----------------------------------------------------------------------------
(* Properties of the change detector, checked under DetectSpec              *)

\* the stored baseline of a platform, as detect_all_changes_with_new_data loads it
Baseline(p) == load_platform_data(p, previous, today)

KeysOf(events) == {_generate_event_key(e) : e \in Range(events)}

UniqueKeys(events) ==
    \A i, j \in DOMAIN events :
        i # j => _generate_event_key(events[i]) # _generate_event_key(events[j])

\* the diff of the running call has been taken
Diffed == (mode = "detect" /\ pc = "done") \/ (mode = "daily" /\ pc = "save")

\* C1: with unique dedup keys in the baseline P and in the collected snapshot
\* C of a platform, new is exactly the events of C dated on or after the run
\* date whose key is not in P, updated exactly those whose key is in P with
\* different content, cancelled exactly the events of P dated on or after the
\* run date whose key is not in C, each once; an event whose key is in both
\* with unchanged content is in none of the three lists.
C1_DiffClassification ==
    Diffed =>
      \A p \in PlatformSet :
        LET P == Baseline(p)
            C == future_data[p]
            chg == changes[p]
            new == {e \in Range(C) : /\ e.event_date >= today
                                     /\ _generate_event_key(e) \notin KeysOf(P)}
            updated == {e \in Range(C) :
                          /\ e.event_date >= today
                          /\ \E a \in Range(P) :
                                /\ _generate_event_key(a) = _generate_event_key(e)
                                /\ _has_content_changed(a, e)}
            cancelled == {a \in Range(P) : /\ a.event_date >= today
                                           /\ _generate_event_key(a) \notin KeysOf(C)}
        IN  (UniqueKeys(P) /\ UniqueKeys(C)) =>
              /\ Range(chg.new_events) = new
              /\ Len(chg.new_events) = Cardinality(new)
              /\ Range(chg.updated_events) = updated
              /\ Len(chg.updated_events) = Cardinality(updated)
              /\ Range(chg.cancelled_events) = cancelled
              /\ Len(chg.cancelled_events) = Cardinality(cancelled)
              /\ \A a \in Range(P), e \in Range(C) :
                    (/\ _generate_event_key(a) = _generate_event_key(e)
                     /\ ~_has_content_changed(a, e))
                    => /\ e \notin Range(chg.new_events)
                       /\ e \notin Range(chg.updated_events)
                       /\ a \notin Range(chg.cancelled_events)

\* C1's case: a diff over unique keys that reports one new and one cancelled
\* event and leaves an unchanged event of both snapshots unreported, while
\* the baseline also holds an event dated before the run date
C1_Witness ==
    /\ mode = "detect"
    /\ pc = "done"
    /\ \E p \in PlatformSet :
          /\ UniqueKeys(Baseline(p))
          /\ UniqueKeys(future_data[p])
          /\ Len(changes[p].new_events) = 1
          /\ Len(changes[p].cancelled_events) = 1
          /\ Len(changes[p].updated_events) = 0
          /\ \E a \in Range(Baseline(p)), e \in Range(future_data[p]) :
                /\ _generate_event_key(a) = _generate_event_key(e)
                /\ ~_has_content_changed(a, e)

\* the records a and e describe one event, e under another title
TitleOnlyChange(a, e) ==
    /\ a.title # e.title
    /\ a.platform = e.platform
    /\ a.original_id = e.original_id
    /\ a.raw_attr_id = e.raw_attr_id
    /\ a.event_date = e.event_date
    /\ a.event_time = e.event_time
    /\ a.event_datetime = e.event_datetime
    /\ a.content = e.content
    /\ a.category = e.category
    /\ a.importance = e.importance
    /\ a.country = e.country

\* C2: on every platform, when the collected record e of an event dated on or
\* after the run date differs from its baseline record a only in title, e is
\* in updated and not in new, and a is not in cancelled.
C2_TitleChangeIsUpdated ==
    Diffed =>
      \A p \in PlatformSet :
        \A a \in Range(Baseline(p)), e \in Range(future_data[p]) :
          (a.event_date >= today /\ TitleOnlyChange(a, e))
          => /\ e \in Range(changes[p].updated_events)
             /\ e \notin Range(changes[p].new_events)
             /\ a \notin Range(changes[p].cancelled_events)

\* C3: in the snapshot an adapter has collected for a platform, no two
\* distinct events have the same dedup key.
C3_KeysUnique ==
    pc \in {"diff", "save"} =>
      \A p \in PlatformSet :
        \A i, j \in DOMAIN future_data[p] :
          future_data[p][i] # future_data[p][j]
          => _generate_event_key(future_data[p][i])
               # _generate_event_key(future_data[p][j])

-----------------------------------------------------------------------------
(* Properties of the lifecycle manager and of the daily run, checked under  *)
(* Spec                                                                     *)

NoDuplicateIds(events) ==
    \A i, j \in DOMAIN events : i # j => events[i].event_id # events[j].event_id

IdsOf(events) == {e.event_id : e \in Range(events)}

\* the archive record of `platform` for the month of `date` ([] when absent)
ArchiveRecord(arch, platform, date) ==
    IF ArchiveKey(platform, YearOf(date), MonthOf(date)) \in DOMAIN arch
    THEN arch[ArchiveKey(platform, YearOf(date), MonthOf(date))]
    ELSE <<>>

\* C4: once archive_specific_date_data(yesterday) has run, running it again
\* on the same current snapshot leaves every archive record with the same set
\* of events and with no duplicate event_id.
C4_ArchiveIdempotent ==
    (mode = "daily" /\ pc = "rotate") =>
      LET again == archive_specific_date_data(archive, current,
                                              Yesterday(today), today)
      IN  /\ DOMAIN again = DOMAIN archive
          /\ \A key \in DOMAIN archive :
                /\ Range(again[key]) = Range(archive[key])
                /\ NoDuplicateIds(again[key])
                /\ NoDuplicateIds(archive[key])

\* C4's case: the archive step has run for the second time on this date,
\* after a failed daily run, and the archive holds an event of yesterday
C4_Witness ==
    /\ mode = "daily"
    /\ pc = "rotate"
    /\ retrying
    /\ \E p \in PlatformSet :
          \E e \in Range(ArchiveRecord(archive, p, Yesterday(today))) :
             e.event_date = Yesterday(today)

C6_RotationComplete ==
    (mode = "daily" /\ pc = "collect") =>
      \A p \in PlatformSet :
        /\ Baseline(p) = SelectSeq(load_platform_data(p, current, today),
                                   LAMBDA e : e.event_date > Yesterday(today))
        /\ \A e \in Range(Baseline(p)) : ~(e.event_date <= Yesterday(today))

\* C6's case: a rotation that kept an event and dropped one dated yesterday
C6_Witness ==
    /\ mode = "daily"
    /\ pc = "collect"
    /\ \E p \in PlatformSet :
          /\ Baseline(p) # <<>>
          /\ \E e \in Range(load_platform_data(p, current, today)) :
                e.event_date = Yesterday(today)

\* every stored archive event is ARCHIVED and lies in its file's platform,
\* year and month
ArchiveBuckets ==
    \A key \in DOMAIN archive :
       \A e \in Range(archive[key]) :
          /\ e.data_status = "ARCHIVED"
          /\ ArchiveKey(e.platform, YearOf(e.event_date), MonthOf(e.event_date)) = key

\* the archive step of a daily run: for every platform the record of
\* yesterday's month gains exactly the current events dated yesterday, as
\* ARCHIVED, and no other record changes
ArchiveSelection ==
    (pc = "archive" /\ pc' = "rotate") =>
      LET d == Yesterday(today)
          touched == {ArchiveKey(p, YearOf(d), MonthOf(d)) : p \in PlatformSet}
      IN  /\ \A p \in PlatformSet :
                LET picked == SelectSeq(load_platform_data(p, current, today),
                                        LAMBDA e : e.event_date = d)
                    before == ArchiveRecord(archive, p, d)
                    after == ArchiveRecord(archive', p, d)
                IN  /\ IdsOf(after) = IdsOf(before) \cup IdsOf(picked)
                    /\ \A e \in Range(picked) :
                          e.event_id \notin IdsOf(before)
                          => [e EXCEPT !.data_status = "ARCHIVED"] \in Range(after)
          /\ \A key \in (DOMAIN archive \cup DOMAIN archive') \ touched :
                key \in DOMAIN archive /\ key \in DOMAIN archive'
                                       /\ archive'[key] = archive[key]

\* C7: archive_specific_date_data(d) merges exactly the current events dated
\* d into the record of d's year and month, and in every reachable state every
\* stored archive event is ARCHIVED and dated inside its record's month.
C7_ArchiveSelection == []ArchiveBuckets /\ [][ArchiveSelection]_vars

\* C7's case: the archive step has put an event of yesterday into the record
\* of yesterday's month, which is not the month of the run date
C7_Witness ==
    /\ pc = "rotate"
    /\ MonthOf(Yesterday(today)) # MonthOf(today)
    /\ \E p \in PlatformSet :
          \E e \in Range(ArchiveRecord(archive, p, Yesterday(today))) :
             /\ e.event_date = Yesterday(today)
             /\ e.event_id \in IdsOf(load_platform_data(p, current, today))

\* the event is stored in the archive, as ARCHIVED
Archived(e) ==
    \E x \in Range(ArchiveRecord(archive, e.platform, e.event_date)) :
       x.event_id = e.event_id /\ x.data_status = "ARCHIVED"

\* C8: when a daily run has completed, no step of any run having met an I/O
\* error, every event the current snapshot held when the run started that is
\* dated before the run date is in the archive as ARCHIVED, and neither the
\* current nor the previous tier holds an event dated yesterday or earlier.
C8_NoOccurredEventLost ==
    (mode = "daily" /\ pc = "done" /\ failures = 0) =>
      \A p \in PlatformSet :
        /\ \A e \in Range(load_platform_data(p, startCur, today)) :
              e.event_date < today => Archived(e)
        /\ \A e \in Range(load_platform_data(p, current, today))
                      \cup Range(Baseline(p)) :
              e.event_date > Yesterday(today)

\* C10: when a daily run completes after a failed daily run of the same
\* date, no archive record holds an event_id twice and the baseline of every
\* platform is exactly the events dated after yesterday of the current
\* snapshot the failed run started from.
C10_SafeReExecution ==
    (mode = "daily" /\ pc = "done" /\ retrying) =>
      /\ \A key \in DOMAIN archive : NoDuplicateIds(archive[key])
      /\ \A p \in PlatformSet :
            Baseline(p) = SelectSeq(load_platform_data(p, startCur, today),
                                    LAMBDA e : e.event_date > Yesterday(today))

-----------------------------------------------------------------------------
(* The end-to-end scenario, checked under ScenarioSpec                      *)

DatesOf(events) == Map(events, LAMBDA e : e.event_date)

\* C9: a daily run on 2025-06-02 over a stored snapshot of one platform with
\* the events of 06-01, 06-02 and 06-03, whose collection returns 06-02 under
\* another title and a 06-04 event and no 06-03 event, reports new = [the
\* 06-04 event], updated = [the 06-02 event], cancelled = [the 06-03 event]
\* and leaves a June archive record of exactly the 06-01 event, ARCHIVED.
C9_Scenario ==
    \A p \in PlatformSet :
      LET stored == load_platform_data(p, startCur, today)
          fresh == load_platform_data(p, current, today)
          june == ArchiveRecord(archive, p, MkDate(2025, 6, 1))
      IN  (/\ mode = "daily"
           /\ pc = "done"
           /\ today = MkDate(2025, 6, 2)
           /\ DatesOf(stored) = <<MkDate(2025, 6, 1), MkDate(2025, 6, 2),
                                  MkDate(2025, 6, 3)>>
           /\ DatesOf(fresh) = <<MkDate(2025, 6, 2), MkDate(2025, 6, 4)>>
           /\ fresh[1].title # stored[2].title)
          => /\ DatesOf(changes[p].new_events) = <<MkDate(2025, 6, 4)>>
             /\ DatesOf(changes[p].updated_events) = <<MkDate(2025, 6, 2)>>
             /\ DatesOf(changes[p].cancelled_events) = <<MkDate(2025, 6, 3)>>
             /\ DatesOf(june) = <<MkDate(2025, 6, 1)>>
             /\ june[1].data_status = "ARCHIVED"

-----------------------------------------------------------------------------
(* Properties of the first run and of the entry-state test, checked under   *)
(* Spec                                                                     *)

\* C11: a first run never reaches the diff step, holds no Change Record and
\* writes no change report, and every event of the snapshot it has persisted
\* as current has is_new = FALSE.
C11_FirstRunBaselineFree ==
    mode = "first" =>
      /\ pc # "diff"
      /\ changes = NoChangesYet
      /\ reports = <<>>
      /\ pc = "done" =>
            \A p \in PlatformSet :
               \A e \in Range(load_platform_data(p, current, today)) : ~e.is_new

\* C11's case: a first run has persisted a snapshot that holds an event
C11_Witness ==
    /\ mode = "first"
    /\ pc = "done"
    /\ \E p \in PlatformSet : load_platform_data(p, current, today) # <<>>

\* C12: in every state of the store, whatever entry points have run,
\* _is_first_run holds exactly when no platform has a file in the current
\* tier.
C12_EntryState ==
    _is_first_run <=> (\A p \in PlatformSet : p \notin DOMAIN current)

-----------------------------------------------------------------------------
(* Properties of failing steps, checked under Spec                          *)

\* a step from the archive or the rotate position either completes that
\* lifecycle operation and moves on, or ends the run as failed with no
\* collection kept and the current tier, its metadata, the marker and the
\* reports as they were
LifecycleStep ==
    pc \in {"archive", "rotate"} =>
       \/ /\ pc = "archive"
          /\ pc' = "rotate"
          /\ archive' = archive_specific_date_data(archive, current,
                                                   Yesterday(today), today)
       \/ /\ pc = "rotate"
          /\ pc' = "collect"
          /\ previous' = rotate_future_data_only(current, Yesterday(today), today)
       \/ /\ pc' = "idle"
          /\ retrying'
          /\ future_data' = NoData
          /\ changes' = NoChangesYet
          /\ UNCHANGED <<current, metadata, marker, reports>>

\* C13: when archive_specific_date_data or rotate_future_data_only raises in
\* a daily run, the run ends as failed without collecting, diffing or saving:
\* the current tier is left as it was.
C13_LifecycleFailureFatal == [][LifecycleStep]_vars

\* C13's case: a daily run has ended in its archive or rotate step: it is
\* marked failed, no report of today exists, the baseline is not the rotation
\* of the current tier, and the current tier is the one the run started from
C13_Witness ==
    /\ pc = "idle"
    /\ retrying
    /\ today \notin DOMAIN reports
    /\ current # <<>>
    /\ current = startCur
    /\ previous # rotate_future_data_only(current, Yesterday(today), today)

-----------------------------------------------------------------------------
(* Properties of the failing diff step, checked under DiffSpec              *)

\* a step from the diff position either is the detection in which no
\* platform's pass raised, or ends the run as failed with the collection
\* dropped
DiffStep ==
    pc = "diff" =>
       \/ /\ changes' = detect_all_changes(previous, future_data, today)
          /\ future_data' = MarkedData(previous, future_data, today)
       \/ /\ pc' = "idle"
          /\ retrying'
          /\ future_data' = NoData

\* C14: when the diff step of a daily run fails for a platform (an exception
\* inside change detection or annotation), the remaining steps are not
\* executed: the fresh snapshot is not persisted as current and
\* run_daily_update reports failure.
C14_DiffFailureHalts == [][DiffStep]_vars

-----------------------------------------------------------------------------
(* Properties of the collection step, checked under Spec                    *)

\* a step from the collect position returns a result mapping in which the
\* platforms that failed have the empty list and the others what their
\* adapters returned, and goes on to the next step of the run
CollectStep ==
    pc = "collect" =>
       /\ pc' \in {"diff", "save"}
       /\ \E picked \in Picks, seed \in HashSeeds :
            \E order \in InvestingOrders(picked, today), down \in Outages :
               future_data' = [p \in PlatformSet |->
                   IF p \in down THEN <<>>
                   ELSE collect_all_future_data(picked, seed, order, today)[p]]

\* C15: when collection fails for one platform during
\* collect_all_future_data, that platform's entry of the result is the empty
\* list, every other platform's entry is what its own adapter returned, and
\* the run goes on to diff and persist.
C15_AdapterFailureIsolated == [][CollectStep]_vars

\* C16: no adapter call raises to the orchestrator: whatever the day the
\* collection runs on, the month-by-month iteration of the jiuyangongshe
\* and tonghuashun adapters from that day to the end of their range
\* terminates normally.
C16_AdaptersNeverPropagate ==
    pc = "collect" =>
       \A p \in {"jiuyangongshe", "tonghuashun"} :
          ~MonthWalk(today, get_platform_date_range(p, today)).raised

-----------------------------------------------------------------------------
(* Properties of load_platform_data, checked under LoadSpec                 *)

\* C17: load_platform_data returns the empty list when the file is absent,
\* empty, not valid JSON, or holds a record that cannot be turned into an
\* event; otherwise it returns one event per stored record, in stored
\* order, with the stored values.
C17_FailSoftLoad ==
    pc = "loaded" =>
       IF \/ file.kind \in {"absent", "empty", "invalid"}
          \/ \E i \in DOMAIN file.records : ~Constructible(file.records[i])
       THEN loaded = <<>>
       ELSE /\ Len(loaded) = Len(file.records)
            /\ \A i \in DOMAIN file.records :
                  \A field \in DOMAIN file.records[i] :
                     loaded[i][field] = file.records[i][field]

\* C17's case: a file whose second record cannot be constructed was loaded,
\* and the first record was not returned either
C17_Witness ==
    /\ pc = "loaded"
    /\ file.kind = "object"
    /\ Len(file.records) = 2
    /\ Constructible(file.records[1])
    /\ ~Constructible(file.records[2])
    /\ loaded = <<>>

-----------------------------------------------------------------------------
(* Properties of the event ids, checked under DetectSpec: the baseline was  *)
(* collected by the process of an earlier run                               *)

\* two events built from the same source record: they agree in every field
\* taken from the record
SameSourceRecord(e, b) ==
    \A field \in EventFields \ {"event_id", "is_new", "discovery_date"} :
       e[field] = b[field]

\* C18: for every platform, two collections of the same source record, made
\* in different processes, give the same event_id.
C18_EventIdDeterministic ==
    pc = "diff" =>
       \A p \in PlatformSet :
          \A e \in Range(future_data[p]), b \in Range(Baseline(p)) :
             SameSourceRecord(e, b) => e.event_id = b.event_id

-----------------------------------------------------------------------------
(* Properties of the change report's ranking, checked under ReportSpec      *)

\* the new events in the order they were discovered: platform order, then the
\* order of the platform's new list
Discovered ==
    Flatten([k \in DOMAIN Platforms |-> changes[Platforms[k]].new_events])

\* the importance an event is ranked by: a missing one counts as 0
RankOf(x) == IF x.importance = 0 - 1 THEN 0 ELSE x.importance

\* the place in Discovered of the event a report entry was made from
PositionOf(entry) ==
    CHOOSE j \in DOMAIN Discovered :
        /\ Discovered[j].platform = entry.platform
        /\ Discovered[j].title = entry.title
        /\ Discovered[j].importance = entry.importance

\* C19: top_new_events holds min(10, number of new events) entries, the new
\* events of highest importance (a missing importance counted as 0) in
\* non-increasing order of importance, events of equal importance in the
\* order they were discovered.
C19_TopNewEvents ==
    (pc = "done" /\ today \in DOMAIN reports) =>
       LET top == reports[today].top_new_events
           chosen == {PositionOf(top[i]) : i \in DOMAIN top}
       IN  /\ Len(top) = Min(10, Len(Discovered))
           /\ \A i \in DOMAIN top :
                 \E j \in DOMAIN Discovered :
                    /\ Discovered[j].platform = top[i].platform
                    /\ Discovered[j].title = top[i].title
                    /\ Discovered[j].importance = top[i].importance
           /\ \A i, k \in DOMAIN top :
                 i < k =>
                    \/ RankOf(top[i]) > RankOf(top[k])
                    \/ /\ RankOf(top[i]) = RankOf(top[k])
                       /\ PositionOf(top[i]) < PositionOf(top[k])
           /\ \A j \in DOMAIN Discovered \ chosen :
                 \A i \in DOMAIN top :
                    \/ RankOf(top[i]) > RankOf(Discovered[j])
                    \/ /\ RankOf(top[i]) = RankOf(Discovered[j])
                       /\ PositionOf(top[i]) < j

\* C19's case: a report over more than ten new events, one without
\* importance before one of importance 0 among them, and an event left out
\* that ties with the last one listed
C19_Witness ==
    /\ pc = "done"
    /\ today \in DOMAIN reports
    /\ Len(Discovered) > 10
    /\ \E i, k \in DOMAIN Discovered :
          i < k /\ Discovered[i].importance = 0 - 1 /\ Discovered[k].importance = 0
    /\ LET top == reports[today].top_new_events
       IN  /\ Len(top) = 10
           /\ \E j \in DOMAIN Discovered :
                 /\ RankOf(Discovered[j]) = RankOf(top[10])
                 /\ \A i \in DOMAIN top : Discovered[j].title # top[i].title
                                            \/ Discovered[j].platform # top[i].platform

-----------------------------------------------------------------------------
(* Properties of the change report's counts, checked under DiffSpec         *)

\* the sum over the platforms of a count of each
PlatformSum(count) ==
    count[Platforms[1]] + count[Platforms[2]] + count[Platforms[3]]
    + count[Platforms[4]] + count[Platforms[5]]

-----------------------------------------------------------------------------
(* Properties of the order of the daily run's steps, checked under Spec     *)

\* the positions of run_daily_update in the order of its statements
StepIndex(position) ==
    CASE position = "archive" -> 1
      [] position = "rotate" -> 2
      [] position = "collect" -> 3
      [] position = "diff" -> 4
      [] position = "save" -> 5
      [] position = "done" -> 6
      [] OTHER -> 0

\* a step of a daily run moves to the next position or ends the run, and the
\* diff finds the baseline this run's rotate made of the current tier
DailyStep ==
    mode = "daily" =>
       /\ pc' = pc \/ pc' = "idle" \/ StepIndex(pc') = StepIndex(pc) + 1
       /\ pc = "diff" =>
             previous = rotate_future_data_only(current, Yesterday(today), today)

\* C22: in every execution of run_daily_update the steps occur in the order
\* archive, rotate, collect, diff, persist, each after the one before has
\* completed, and the diff compares the fresh collection with the baseline
\* this run's rotate produced.
C22_DailyStepOrder == [][DailyStep]_vars

\* C22's case: a daily run that has archived, rotated, collected and diffed
\* against a baseline that holds events, and is about to persist
C22_Witness ==
    /\ pc = "save"
    /\ mode = "daily"
    /\ \E p \in PlatformSet : Baseline(p) # <<>>
    /\ \E p \in PlatformSet : changes[p].cancelled_events # <<>>

\* C23: in a daily run the Change Report of the run date is persisted only
\* after the fresh snapshot has been persisted as the current tier: no daily
\* run is about to persist its snapshot with today's report already on disk.
C23_ReportAfterSnapshot ==
    (mode = "daily" /\ pc = "save") => today \notin DOMAIN reports

-----------------------------------------------------------------------------
(* Properties of the annotation, checked under DetectSpec                   *)

\* C25: after the diff, every event of the fresh snapshot classified new has
\* is_new = true and discovery_date = run date, every event classified
\* updated has discovery_date = run date and is_new = false, every other
\* event of the fresh snapshot has is_new = false, and the cancelled events
\* are the baseline's records, unmodified.
C25_Annotation ==
    Diffed =>
       \A p \in PlatformSet :
          /\ \A e \in Range(future_data[p]) :
                /\ e \in Range(changes[p].new_events) =>
                      e.is_new /\ e.discovery_date = today
                /\ e \in Range(changes[p].updated_events) =>
                      ~e.is_new /\ e.discovery_date = today
                /\ e \notin (Range(changes[p].new_events)
                             \cup Range(changes[p].updated_events)) => ~e.is_new
          /\ \A c \in Range(changes[p].cancelled_events) : c \in Range(Baseline(p))

-----------------------------------------------------------------------------
(* Properties of is_new and discovery_date in the store, checked under Spec *)

\* the events of a platform's file in a tier
StoredIn(tier, p) == IF p \in DOMAIN tier THEN Range(tier[p]) ELSE {}

\* a record with is_new = true enters the current tier only with the run
\* date as discovery_date, written by the daily run that marked it, and
\* enters the baseline only as the copy of a stored record
IsNewStep ==
    /\ \A p \in DOMAIN current' :
          \A e \in Range(current'[p]) :
             e.is_new =>
                \/ e \in StoredIn(current, p)
                \/ mode = "daily" /\ e.discovery_date = today
    /\ \A p \in DOMAIN previous' :
          \A e \in Range(previous'[p]) :
             e.is_new => e \in StoredIn(previous, p) \cup StoredIn(current, p)

\* C26: every event of a persisted current or baseline snapshot with
\* is_new = true has the run date of the run that classified it as new as
\* its discovery_date.
C26_IsNewDiscoveryDate == [][IsNewStep]_vars

\* C26's case: the baseline holds an event a run of an earlier day marked new
C26_Witness ==
    \E p \in DOMAIN previous :
       \E e \in Range(previous[p]) : e.is_new /\ e.discovery_date < today

\* C27: for an event whose dedup key is in the baseline and in the fresh
\* collection with unchanged content, the snapshot a daily run persists keeps
\* the discovery_date of the baseline's record, the date an earlier run first
\* observed the event, not the date of the current run (no step of any run
\* having failed).
C27_DiscoveryDateIsFirstObservation ==
    (mode = "daily" /\ pc = "done" /\ failures = 0) =>
       \A p \in DOMAIN current :
          \A e \in Range(current[p]), b \in Range(Baseline(p)) :
             (/\ _generate_event_key(e) = _generate_event_key(b)
              /\ ~_has_content_changed(b, e))
             => e.discovery_date = b.discovery_date

-----------------------------------------------------------------------------
(* Properties of the report against the persisted snapshot, checked under   *)
(* Spec                                                                     *)

\* the number of events of a list with is_new = true
IsNewCount(events) == Cardinality({i \in DOMAIN events : events[i].is_new})

\* C29: after a completed daily run in which no step failed, for every
\* platform the number of events with is_new = true in the persisted current
\* snapshot is that platform's new_events count in the run's Change Report.
C29_ReportAgreesWithSnapshot ==
    (mode = "daily" /\ pc = "done" /\ failures = 0) =>
       \A p \in PlatformSet :
          IsNewCount(current[p]) = reports[today].platforms[p].new_events

-----------------------------------------------------------------------------
(* Properties of the collection window, checked under YearEndSpec           *)

\* C30: for every platform and every start date, the horizon
\* get_platform_date_range returns is not earlier than the start date: the
\* window a run passes to an adapter contains the run date.
C30_WindowNonEmpty ==
    pc = "collect" =>
       \A p \in PlatformSet : get_platform_date_range(p, today) >= today

-----------------------------------------------------------------------------
(* Properties of the single-day retry, checked under RetrySpec              *)

\* the attempts whose request the source answers
Answered == {k \in DOMAIN request.outcomes : request.outcomes[k] = "ok"}

\* C28: when a single-day request fails, the request is attempted again, up
\* to max_retries attempts in all; the call returns the empty list only
\* after the last attempt has failed, and otherwise what the first answered
\* attempt gave.
C28_SingleDayRetry ==
    request.returned =>
       IF Answered = {}
       THEN request.attempt = max_retries /\ request.value = <<>>
       ELSE /\ request.attempt = SetMin(Answered)
            /\ request.value = _request_investing_single_day(universe, today, today)

-----------------------------------------------------------------------------
(* Archive and rotate of the same date                                      *)

Store == [current |-> current, previous |-> previous, archive |-> archive]

\* what a step leads to, and the order of the two operations exchanged
CommuteStep ==
    LET d == Yesterday(today)
        after == [current |-> current', previous |-> previous', archive |-> archive']
    IN  /\ (pc = "archive" /\ pc' = "rotate") => after = ArchiveStore(Store, d, today)
        /\ (pc = "rotate" /\ pc' = "collect") => after = RotateStore(Store, d, today)
        /\ pc = "archive" =>
              /\ ArchiveStore(RotateStore(Store, d, today), d, today)
                   = RotateStore(ArchiveStore(Store, d, today), d, today)
              /\ ArchiveStore(Store, d, today).current = current
              /\ ArchiveStore(Store, d, today).previous = previous
              /\ RotateStore(Store, d, today).current = current
              /\ RotateStore(Store, d, today).archive = archive

\* C24: archive(d) then rotate(d), and rotate(d) then archive(d), end in the
\* same archive, the same baseline and the same, unchanged, current
\* snapshot: neither operation modifies the current snapshot, archiving
\* does not modify the baseline and rotating does not modify the archive.
C24_ArchiveRotateCommute == [][CommuteStep]_vars

\* both have acted on a snapshot that had events of the date and later ones
C24_Witness ==
    /\ mode = "daily"
    /\ pc = "collect"
    /\ previous # <<>>
    /\ \E p \in DOMAIN current : \E e \in Range(current[p]) :
          e.event_date = Yesterday(today)

-----------------------------------------------------------------------------
(* Two daily runs on the one store, checked under ConcSpec                  *)

\* write-once: the step keeps every stored archive record, in its file and
\* alone under its event_id
WriteOnceStep ==
    \A key \in DOMAIN archive :
       /\ key \in DOMAIN archive'
       /\ \A e \in Range(archive[key]) :
             /\ e \in Range(archive'[key])
             /\ \A x \in Range(archive'[key]) :
                   x.event_id = e.event_id => x = e

\* full replacement: while a call is between its rotation and its save, the
\* baseline is the future-only part of the current snapshot
BaselineOfCurrent ==
    (\E r \in ConcRuns : conc.run[r].pc \in {"collect", "diff", "save"})
    => previous = rotate_future_data_only(current, Yesterday(today), today)

=============================================================================
